---- MODULE Spec2Model ----
(***************************************************************************)
(* Model of the synaptic context store (src/src/storage/sqlite.ts), its    *)
(* maintenance passes, the MCP tool handlers that drive it, and the        *)
(* GitHub-based replication cycle with its background scheduler.          *)
(*                                                                         *)
(* Dates are day numbers, times are minutes of the day, vectors are small  *)
(* integers whose absolute difference stands for the L2 distance, and a    *)
(* text is one token: a lexical query matches a row whose content, type or *)
(* one of whose tags equals it.                                            *)
(***************************************************************************)
EXTENDS Integers, Sequences, FiniteSets, TLC

(***************************************************************************)
(* Bounds of the model.                                                    *)
(***************************************************************************)
\* Largest rowid the entries table may hand out.
MaxRowid == 2
\* Number of sync cycles one scheduler starts.
MaxCycles == 2
\* Cap on access_count reached through access bumps.
MaxAccess == 2
\* Number of contextSave calls that may be suspended at once.
MaxPending == 1
\* Longest content a maintenance run may start from (consolidation appends a
\* note to the survivor each time its cluster is still there).
MaxContentLen == 40

\* The day the model starts on (far enough from 0 for every age used).
StartDay == 100

NULL == "null"
NoDay == 0 - 1

Types == {"decision", "progress", "issue", "handoff", "insight", "reference",
          "git_commit", "rule"}
Tiers == {"ephemeral", "working", "longterm"}

(***************************************************************************)
(* Generic helpers.                                                        *)
(***************************************************************************)
MaxOf(S) == IF S = {} THEN 0 ELSE CHOOSE x \in S : \A y \in S : y <= x

MinOf(S) == CHOOSE x \in S : \A y \in S : x <= y

RECURSIVE AscSeq(_)
AscSeq(S) == IF S = {} THEN << >>
             ELSE LET m == MinOf(S) IN << m >> \o AscSeq(S \ {m})

Range(s) == { s[i] : i \in DOMAIN s }

Take(s, n) == IF Len(s) <= n THEN s ELSE SubSeq(s, 1, n)

\* Insert x into the key-sorted sequence s after every element whose key is
\* not larger (a stable insertion).
RECURSIVE InsertSorted(_, _, _)
InsertSorted(s, x, key) ==
    IF s = << >> THEN << x >>
    ELSE IF key[x] < key[Head(s)] THEN << x >> \o s
    ELSE << Head(s) >> \o InsertSorted(Tail(s), x, key)

\* Stable ascending sort of the sequence s by key.
RECURSIVE StableSort(_, _)
StableSort(s, key) ==
    IF s = << >> THEN << >>
    ELSE InsertSorted(StableSort(SubSeq(s, 1, Len(s) - 1), key), s[Len(s)], key)

RemoveKeys(f, K) == [ r \in DOMAIN f \ K |-> f[r] ]

Put(f, k, v) == [ r \in DOMAIN f \cup {k} |-> IF r = k THEN v ELSE f[r] ]

(***************************************************************************)
(* The store: entries table, lexical index and vector index, each keyed by *)
(* rowid.                                                                  *)
(***************************************************************************)
EmptyDb == [ entries |-> << >>, fts |-> << >>, vec |-> << >>, patterns |-> << >> ]

assignTier(type, explicitTier) ==
    IF explicitTier # NULL THEN explicitTier
    ELSE IF type \in {"handoff", "progress"} THEN "ephemeral"
    ELSE IF type = "reference" THEN "longterm"
    ELSE "working"

\* The rowid SQLite gives a new row of a table without AUTOINCREMENT: one
\* more than the largest rowid in the table, taken before REPLACE removes
\* the conflicting rows.
NewRowid(db) == MaxOf(DOMAIN db.entries) + 1

RowsWithId(db, id) == { r \in DOMAIN db.entries : db.entries[r].id = id }

\* Trigger entries_ai: every row inserted into entries gets a lexical row.
entries_ai(fts, rowid, row) ==
    Put(fts, rowid, [ content |-> row.content, tags |-> row.tags, type |-> row.type ])

\* The column values insert() binds: absent optional fields take defaults.
InsertRow(entry) ==
    [ id |-> entry.id, date |-> entry.date, time |-> entry.time,
      type |-> entry.type, tags |-> entry.tags, content |-> entry.content,
      sourceFile |-> entry.sourceFile,
      tier |-> IF entry.tier = NULL THEN "working" ELSE entry.tier,
      accessCount |-> entry.accessCount,
      lastAccessed |-> entry.lastAccessed,
      pinned |-> entry.pinned, archived |-> entry.archived,
      label |-> entry.label ]

\* insert(): INSERT OR REPLACE.  REPLACE removes the rows that conflict on
\* the primary key id or on the unique rule label; recursive triggers are
\* off, so entries_ad does not fire for them and neither index is touched.
insert(db, entry) ==
    LET rowid == NewRowid(db)
        row == InsertRow(entry)
        conflict == { r \in DOMAIN db.entries :
                        \/ db.entries[r].id = row.id
                        \/ /\ row.type = "rule" /\ row.label # NULL
                           /\ db.entries[r].type = "rule"
                           /\ db.entries[r].label = row.label }
    IN [ db |-> [ db EXCEPT !.entries = Put(RemoveKeys(db.entries, conflict), rowid, row),
                            !.fts = entries_ai(db.fts, rowid, row) ],
         rowid |-> rowid ]

\* insertVec(): a plain INSERT into vec_entries; a rowid that already has a
\* vector violates the primary key and the call throws.
insertVecThrows(db, rowid) == rowid \in DOMAIN db.vec

insertVec(db, rowid, embedding) ==
    IF insertVecThrows(db, rowid) THEN db
    ELSE [ db EXCEPT !.vec = Put(db.vec, rowid, embedding) ]

(***************************************************************************)
(* Queries.                                                                *)
(***************************************************************************)
\* entries_fts MATCH ?: the query token occurs in one of the indexed columns.
Matches(ftsRow, query) ==
    \/ ftsRow.content = query
    \/ ftsRow.type = query
    \/ query \in Range(ftsRow.tags)

\* FTS5 rejects an empty MATCH expression with a syntax error.
searchThrows(query) == query = ""

\* search() without its archived = 0 condition.
searchRowidsWithArchived(db, today, query, opts) ==
    LET hit == { r \in DOMAIN db.fts \cap DOMAIN db.entries :
                   /\ Matches(db.fts[r], query)
                   /\ (opts.type # NULL => db.entries[r].type = opts.type)
                   /\ (opts.days # 0 => db.entries[r].date >= today - opts.days) }
    IN Take(AscSeq(hit), opts.limit)

\* search(): lexical rows joined to entries on rowid, filtered, ordered by
\* rank (one-token rows rank equal, so the rowid order of the scan decides),
\* cut at limit.  Returns the rowids in result order.
searchRowids(db, today, query, opts) ==
    LET hit == { r \in DOMAIN db.fts \cap DOMAIN db.entries :
                   /\ Matches(db.fts[r], query)
                   /\ (opts.type # NULL => db.entries[r].type = opts.type)
                   /\ (opts.days # 0 => db.entries[r].date >= today - opts.days)
                   /\ (~opts.includeArchived => ~db.entries[r].archived) }
    IN Take(AscSeq(hit), opts.limit)

search(db, today, query, opts) ==
    LET rows == searchRowids(db, today, query, opts)
    IN [ i \in DOMAIN rows |-> db.entries[rows[i]] ]

Dist(a, b) == IF a >= b THEN a - b ELSE b - a

\* searchVec(): the limit nearest vector rows, by ascending distance.
searchVec(db, embedding, limit) ==
    LET key == [ r \in DOMAIN db.vec |-> Dist(db.vec[r], embedding) ]
    IN Take(StableSort(AscSeq(DOMAIN db.vec), key), limit)

\* getByRowids(): the entry rows whose rowid is listed, in rowid order.
getByRowids(db, rowids) ==
    LET rows == AscSeq(Range(rowids) \cap DOMAIN db.entries)
    IN [ i \in DOMAIN rows |-> db.entries[rows[i]] ]

\* getRowidsByIds(): the rowid of each id, -1 for an unknown id.
getRowidsByIds(db, ids) ==
    [ i \in DOMAIN ids |->
        IF RowsWithId(db, ids[i]) = {} THEN 0 - 1
        ELSE CHOOSE r \in RowsWithId(db, ids[i]) : TRUE ]

\* list(): ORDER BY date DESC, time DESC (a day has 1440 minutes).
listRowids(db, today, opts) ==
    LET hit == { r \in DOMAIN db.entries :
                   /\ (opts.type # NULL => db.entries[r].type = opts.type)
                   /\ (opts.days # 0 => db.entries[r].date >= today - opts.days)
                   /\ (~opts.includeArchived => ~db.entries[r].archived) }
        key == [ r \in hit |->
                   0 - (db.entries[r].date * 1440 + db.entries[r].time) ]
    IN StableSort(AscSeq(hit), key)

list(db, today, opts) ==
    LET rows == listRowids(db, today, opts)
    IN [ i \in DOMAIN rows |-> db.entries[rows[i]] ]

(***************************************************************************)
(* Archive and access tracking.                                            *)
(***************************************************************************)
\* archiveEntries() without its pinned = 0 condition.
archiveMatchedIgnoringPin(db, ids) ==
    { r \in DOMAIN db.entries : db.entries[r].id \in ids }

\* The rows the UPDATE of archiveEntries() matches.
archiveMatched(db, ids) ==
    { r \in DOMAIN db.entries : db.entries[r].id \in ids /\ ~db.entries[r].pinned }

\* archiveEntries(): UPDATE ... SET archived = 1 WHERE id IN (ids) AND
\* pinned = 0; returns result.changes, the number of rows the UPDATE matched.
archiveEntries(db, ids) ==
    LET hit == archiveMatched(db, ids)
    IN [ db |-> [ db EXCEPT !.entries =
                    [ r \in DOMAIN db.entries |->
                        IF r \in hit THEN [ db.entries[r] EXCEPT !.archived = TRUE ]
                        ELSE db.entries[r] ] ],
         changes |-> Cardinality(hit) ]

bumpAccessOfAll(db, today, ids) ==
    [ db EXCEPT !.entries =
        [ r \in DOMAIN db.entries |->
            IF ids # {}
            THEN [ db.entries[r] EXCEPT !.accessCount = @ + 1, !.lastAccessed = today ]
            ELSE db.entries[r] ] ]

bumpAccess(db, today, ids) ==
    [ db EXCEPT !.entries =
        [ r \in DOMAIN db.entries |->
            IF db.entries[r].id \in ids
            THEN [ db.entries[r] EXCEPT !.accessCount = @ + 1, !.lastAccessed = today ]
            ELSE db.entries[r] ] ]

(***************************************************************************)
(* Hybrid search.  Scores are kept as integers: the reciprocal-rank term   *)
(* is scaled by 10000, the decay by 1000, the two weights by 10.           *)
(***************************************************************************)
K == 60

rrf(rank) == 10000 \div (K + rank + 1)

\* 1000 * 0.5^(r/30) for r = 0 .. 29, rounded.
HalfLifeTable ==
    << 1000, 977, 955, 933, 912, 891, 871, 851, 831, 812, 794, 776, 758, 741,
       724, 707, 691, 675, 660, 645, 630, 616, 602, 588, 574, 561, 548, 536,
       524, 512 >>

RECURSIVE Pow2(_)
Pow2(n) == IF n <= 0 THEN 1 ELSE 2 * Pow2(n - 1)

\* Math.pow(0.5, ageDays / 30) in thousandths; ageDays is today minus the
\* entry date and is not clamped, so a date in the future gives more than 1.
decay(ageDays) ==
    IF ageDays >= 0
    THEN HalfLifeTable[(ageDays % 30) + 1] \div Pow2(ageDays \div 30)
    ELSE 1000000 \div (HalfLifeTable[((0 - ageDays) % 30) + 1] \div Pow2((0 - ageDays) \div 30))

tierWeight(tier) ==
    IF tier = "longterm" THEN 15 ELSE IF tier = "ephemeral" THEN 5 ELSE 10

confidenceBoost(accessCount) ==
    IF accessCount = 0 THEN 7
    ELSE IF accessCount <= 2 THEN 10
    ELSE IF accessCount <= 5 THEN 12
    ELSE 14

\* Positions (0-based ranks) of x in the sequence s.
RanksOf(s, x) == { i - 1 : i \in { j \in DOMAIN s : s[j] = x } }

RECURSIVE SumRrf(_)
SumRrf(ranks) ==
    IF ranks = {} THEN 0
    ELSE LET r == CHOOSE x \in ranks : TRUE IN rrf(r) + SumRrf(ranks \ {r})

\* The keys of the scores map in insertion order: lexical rowids first, then
\* the vector rowids not seen before.
RECURSIVE Dedup(_, _)
Dedup(s, seen) ==
    IF s = << >> THEN << >>
    ELSE IF Head(s) \in seen THEN Dedup(Tail(s), seen)
    ELSE << Head(s) >> \o Dedup(Tail(s), seen \cup {Head(s)})

hybridCandidates(db, today, query, embedding, opts) ==
    LET candidateLimit == opts.limit * 3
        bm25Results == search(db, today, query,
                         [ type |-> opts.type, days |-> opts.days,
                           limit |-> candidateLimit,
                           includeArchived |-> opts.includeArchived ])
        bm25Rowids == getRowidsByIds(db, [ i \in DOMAIN bm25Results |-> bm25Results[i].id ])
        vecResults == searchVec(db, embedding, candidateLimit)
    IN [ bm25 |-> bm25Rowids, vec |-> vecResults,
         all |-> Dedup(bm25Rowids \o vecResults, {}) ]

\* hybridSearch() throws when the lexical query is rejected, and when a
\* candidate rowid has no entry row: entryMap.get(rowid)! is undefined and
\* reading its date raises a TypeError.
hybridSearchThrows(db, today, query, embedding, opts) ==
    \/ searchThrows(query)
    \/ \E r \in Range(hybridCandidates(db, today, query, embedding, opts).all) :
          r \notin DOMAIN db.entries

hybridScore(db, today, cand, rowid) ==
    LET entry == db.entries[rowid]
    IN (SumRrf(RanksOf(cand.bm25, rowid)) + SumRrf(RanksOf(cand.vec, rowid)))
         * decay(today - entry.date) * tierWeight(entry.tier)
         * confidenceBoost(entry.accessCount)

\* The rowids hybridSearch() returns, in result order (the call not throwing).
hybridSearchRowids(db, today, query, embedding, opts) ==
    LET cand == hybridCandidates(db, today, query, embedding, opts)
        filtered == SelectSeq(cand.all, LAMBDA r :
                       /\ (~opts.includeArchived => ~db.entries[r].archived)
                       /\ (opts.tier # NULL => db.entries[r].tier = opts.tier))
        key == [ r \in Range(filtered) |-> 0 - hybridScore(db, today, cand, r) ]
    IN Take(StableSort(filtered, key), opts.limit)

hybridSearch(db, today, query, embedding, opts) ==
    IF hybridSearchThrows(db, today, query, embedding, opts)
    THEN [ db |-> db, throws |-> TRUE, result |-> << >> ]
    ELSE LET rows == hybridSearchRowids(db, today, query, embedding, opts)
             result == [ i \in DOMAIN rows |-> db.entries[rows[i]] ]
         IN [ db |-> bumpAccess(db, today, { result[i].id : i \in DOMAIN result }),
              throws |-> FALSE, result |-> result ]

(***************************************************************************)
(* Maintenance passes (each one UPDATE).                                   *)
(***************************************************************************)
UpdateWhere(db, cond(_), set(_)) ==
    [ db EXCEPT !.entries =
        [ r \in DOMAIN db.entries |->
            IF cond(db.entries[r]) THEN set(db.entries[r]) ELSE db.entries[r] ] ]

CountWhere(db, cond(_)) == Cardinality({ r \in DOMAIN db.entries : cond(db.entries[r]) })

decayEphemeralCondAtBound(e, today) ==
    /\ e.tier = "ephemeral" /\ ~e.pinned /\ ~e.archived
    /\ \/ e.accessCount = 0 /\ e.date <= today - 3
       \/ e.accessCount >= 1 /\ e.accessCount <= 2 /\ e.date <= today - 7
       \/ e.accessCount >= 3 /\ e.date <= today - 14

decayEphemeralCond(e, today) ==
    /\ e.tier = "ephemeral" /\ ~e.pinned /\ ~e.archived
    /\ \/ e.accessCount = 0 /\ e.date < today - 3
       \/ e.accessCount >= 1 /\ e.accessCount <= 2 /\ e.date < today - 7
       \/ e.accessCount >= 3 /\ e.date < today - 14

decayEphemeral(db, today) ==
    [ db |-> UpdateWhere(db, LAMBDA e : decayEphemeralCond(e, today),
                         LAMBDA e : [ e EXCEPT !.archived = TRUE ]),
      changes |-> CountWhere(db, LAMBDA e : decayEphemeralCond(e, today)) ]

Coalesce(a, b) == IF a = NoDay THEN b ELSE a

demoteIdleCond(e, today) ==
    /\ e.tier = "working" /\ ~e.pinned /\ ~e.archived
    /\ \/ e.accessCount = 0 /\ Coalesce(e.lastAccessed, e.date) < today - 15
       \/ e.accessCount >= 1 /\ e.accessCount <= 2
            /\ Coalesce(e.lastAccessed, e.date) < today - 30
       \/ e.accessCount >= 3 /\ Coalesce(e.lastAccessed, e.date) < today - 60

demoteIdle(db, today) ==
    [ db |-> UpdateWhere(db, LAMBDA e : demoteIdleCond(e, today),
                         LAMBDA e : [ e EXCEPT !.tier = "ephemeral" ]),
      changes |-> CountWhere(db, LAMBDA e : demoteIdleCond(e, today)) ]

promoteStableCond(e, today) ==
    /\ e.tier = "working" /\ ~e.archived
    /\ e.type \in {"decision", "insight"}
    /\ e.date < today - 7

promoteStable(db, today) ==
    [ db |-> UpdateWhere(db, LAMBDA e : promoteStableCond(e, today),
                         LAMBDA e : [ e EXCEPT !.tier = "longterm" ]),
      changes |-> CountWhere(db, LAMBDA e : promoteStableCond(e, today)) ]

promoteFrequentCond(e) ==
    e.tier = "ephemeral" /\ ~e.archived /\ e.accessCount >= 3

promoteFrequent(db) ==
    [ db |-> UpdateWhere(db, LAMBDA e : promoteFrequentCond(e),
                         LAMBDA e : [ e EXCEPT !.tier = "working" ]),
      changes |-> CountWhere(db, LAMBDA e : promoteFrequentCond(e)) ]

(***************************************************************************)
(* Consolidation.  Distances are in hundredths; for unit vectors           *)
(* cosine = 1 - distance^2 / 2, kept in ten-thousandths.                   *)
(***************************************************************************)
cosineSimilarity(a, b) == 10000 - (Dist(a, b) * Dist(a, b)) \div 2

\* getEmbedding(): the vector stored under the entry's rowid, if any.
HasEmbedding(db, rowid) == rowid \in DOMAIN db.vec

\* The cluster the greedy pass builds around candidate i.
ClusterOf(db, cands, i, used, threshold) ==
    << cands[i] >> \o
    SelectSeq(SubSeq(cands, i + 1, Len(cands)), LAMBDA r :
        /\ r \notin used
        /\ HasEmbedding(db, r)
        /\ cosineSimilarity(db.vec[cands[i]], db.vec[r]) >= threshold)

RECURSIVE GreedyGroups(_, _, _, _, _)
GreedyGroups(db, cands, i, used, threshold) ==
    IF i > Len(cands) THEN << >>
    ELSE IF cands[i] \in used \/ ~HasEmbedding(db, cands[i])
         THEN GreedyGroups(db, cands, i + 1, used, threshold)
    ELSE LET cluster == ClusterOf(db, cands, i, used, threshold)
         IN IF Len(cluster) >= 3
            THEN << cluster >> \o
                 GreedyGroups(db, cands, i + 1, used \cup Range(cluster), threshold)
            ELSE GreedyGroups(db, cands, i + 1, used, threshold)

\* findConsolidationCandidates(): groups of rowids, each in list order.
findConsolidationCandidates(db, today, threshold) ==
    LET listed == listRowids(db, today,
                    [ type |-> NULL, days |-> 30, includeArchived |-> FALSE ])
        cands == SelectSeq(listed, LAMBDA r : db.entries[r].type \in {"issue", "decision"})
    IN IF Len(cands) < 3 THEN << >>
       ELSE GreedyGroups(db, cands, 1, {}, threshold)

\* Store methods consolidate() calls whose bodies are not part of sqlite.ts.
RECURSIVE AppendNew(_, _)
AppendNew(tags, more) ==
    IF more = << >> THEN tags
    ELSE IF Head(more) \in Range(tags) THEN AppendNew(tags, Tail(more))
    ELSE AppendNew(Append(tags, Head(more)), Tail(more))

RECURSIVE FlattenTags(_, _)
FlattenTags(db, rows) ==
    IF rows = << >> THEN << >>
    ELSE db.entries[Head(rows)].tags \o FlattenTags(db, Tail(rows))

mergeTagsInto(db, survivor, others) ==
    [ db EXCEPT !.entries[survivor].tags = AppendNew(@, FlattenTags(db, others)) ]

updateEntryContent(db, rowid, content) ==
    [ db EXCEPT !.entries[rowid].content = content ]

changeTier(db, rowid, tier) ==
    [ db EXCEPT !.entries[rowid].tier = tier ]

\* The suffix consolidate() appends for a group of n entries.
ConsolidatedNote(n) == "\n[Consolidated from " \o ToString(n) \o " entries]"

\* consolidate() for one group; snap is the store the groups were read from.
\* Date.now() lies after midnight, so an entry dated 3 days back is already
\* more than 3 * 24 hours old.
consolidateGroup(db, snap, today, group) ==
    LET eligible == SelectSeq(group, LAMBDA r : today - snap.entries[r].date >= 3)
        key == [ r \in Range(eligible) |-> 0 - snap.entries[r].accessCount ]
        sorted == StableSort(eligible, key)
        survivor == sorted[1]
        others == Tail(sorted)
        merged == mergeTagsInto(db, survivor, others)
        noted == updateEntryContent(merged, survivor,
                    snap.entries[survivor].content \o ConsolidatedNote(Len(eligible)))
        promoted == IF snap.entries[survivor].tier = "ephemeral"
                    THEN changeTier(noted, survivor, "working") ELSE noted
    IN IF Len(eligible) < 3 THEN [ db |-> db, done |-> 0 ]
       ELSE IF \E r \in Range(eligible) : snap.entries[r].type \in {"rule", "reference"}
            THEN [ db |-> db, done |-> 0 ]
       ELSE [ db |-> archiveEntries(promoted,
                        { snap.entries[r].id : r \in Range(others) }).db,
              done |-> 1 ]

RECURSIVE consolidateGroups(_, _, _, _)
consolidateGroups(db, snap, today, groups) ==
    IF groups = << >> THEN [ db |-> db, done |-> 0 ]
    ELSE LET one == consolidateGroup(db, snap, today, Head(groups))
             rest == consolidateGroups(one.db, snap, today, Tail(groups))
         IN [ db |-> rest.db, done |-> one.done + rest.done ]

consolidate(db, today) ==
    consolidateGroups(db, db, today, findConsolidationCandidates(db, today, 7500))

\* runMaintenance() with demoteIdle() before decayEphemeral().
runMaintenanceDemotingFirst(db, today) ==
    LET d2 == demoteIdle(db, today)
        d1 == decayEphemeral(d2.db, today)
        d3 == promoteStable(d1.db, today)
        d4 == promoteFrequent(d3.db)
        d5 == consolidate(d4.db, today)
    IN [ db |-> d5.db,
         report |-> [ decayed |-> d1.changes, demoted |-> d2.changes,
                      promotedStable |-> d3.changes,
                      promotedFrequent |-> d4.changes,
                      consolidated |-> d5.done ] ]

\* runMaintenance(): the five passes in order, each on the store the previous
\* one left.
runMaintenance(db, today) ==
    LET d1 == decayEphemeral(db, today)
        d2 == demoteIdle(d1.db, today)
        d3 == promoteStable(d2.db, today)
        d4 == promoteFrequent(d3.db)
        d5 == consolidate(d4.db, today)
    IN [ db |-> d5.db,
         report |-> [ decayed |-> d1.changes, demoted |-> d2.changes,
                      promotedStable |-> d3.changes,
                      promotedFrequent |-> d4.changes,
                      consolidated |-> d5.done ] ]

(***************************************************************************)
(* Rules.                                                                  *)
(***************************************************************************)
RuleRows(db, label) ==
    { r \in DOMAIN db.entries : db.entries[r].type = "rule" /\ db.entries[r].label = label }

\* saveRule() without the removal of the rule the label already has.
removeRuleKeepingOld(db, label) == db

\* The manual clean-up saveRule() and deleteRule() share: the lexical row
\* and the entry row go (entries_ad is dropped meanwhile); vec_entries is
\* not touched.  .get() yields one matching row.
removeRule(db, label) ==
    IF RuleRows(db, label) = {} THEN db
    ELSE LET existing == MinOf(RuleRows(db, label))
         IN [ db EXCEPT !.fts = RemoveKeys(@, {existing}),
                        !.entries = RemoveKeys(@, {existing}) ]

\* saveRule(): removes the rule of that label, then a plain INSERT of the
\* new row (entries_ai adds its lexical row).
saveRule(db, today, now, id, label, content) ==
    LET cleaned == removeRule(db, label)
        rowid == NewRowid(cleaned)
        row == [ id |-> id, date |-> today, time |-> now, type |-> "rule",
                 tags |-> << >>, content |-> content, sourceFile |-> "rule",
                 tier |-> "longterm", accessCount |-> 0, lastAccessed |-> NoDay,
                 pinned |-> TRUE, archived |-> FALSE, label |-> label ]
    IN [ db |-> [ cleaned EXCEPT !.entries = Put(@, rowid, row),
                                 !.fts = entries_ai(@, rowid, row) ],
         rowid |-> rowid ]

\* listRules(): rules that are not archived (ORDER BY date DESC).
listRules(db) ==
    LET hit == { r \in DOMAIN db.entries :
                   db.entries[r].type = "rule" /\ ~db.entries[r].archived }
        key == [ r \in hit |-> 0 - db.entries[r].date ]
        rows == StableSort(AscSeq(hit), key)
    IN [ i \in DOMAIN rows |-> db.entries[rows[i]] ]

deleteRule(db, label) ==
    [ db |-> removeRule(db, label), deleted |-> RuleRows(db, label) # {} ]

\* clearAll(): wipes the three tables.
clearAll(db) == EmptyDb

(***************************************************************************)
(* Patterns.  The table is kept in insertion order; a pattern's id is its  *)
(* position, which is fresh as long as the table is not cleared.           *)
(***************************************************************************)
MaxPatterns == 3

\* findSimilarIssues(): the 20 nearest vectors within the distance
\* threshold, then the non-archived issues among them dated within the
\* window.
findSimilarIssues(db, today, embedding, days, threshold) ==
    LET near == SelectSeq(searchVec(db, embedding, 20),
                          LAMBDA r : Dist(db.vec[r], embedding) <= threshold)
    IN SelectSeq(getByRowids(db, near), LAMBDA e :
          e.type = "issue" /\ ~e.archived /\ e.date >= today - days)

\* createOrUpdatePattern(): the first unresolved pattern that shares an id
\* with entryIds takes the union (existing ids first, each id once);
\* without one a new pattern stores entryIds as given.  Labels here are
\* shorter than 80 characters, so slice(0, 80) keeps them whole.
createOrUpdatePattern(db, today, label, entryIds) ==
    LET overlapping == { i \in DOMAIN db.patterns :
                           /\ ~db.patterns[i].resolved
                           /\ Range(db.patterns[i].entryIds) \cap Range(entryIds) # {} }
        pat == MinOf(overlapping)
        merged == Dedup(db.patterns[pat].entryIds \o entryIds, {})
    IN IF overlapping # {}
       THEN [ db |-> [ db EXCEPT !.patterns[pat] =
                        [ @ EXCEPT !.entryIds = merged,
                                   !.occurrenceCount = Len(merged),
                                   !.lastSeen = today, !.label = label ] ],
              id |-> pat ]
       ELSE [ db |-> [ db EXCEPT !.patterns = Append(@,
                        [ id |-> Len(db.patterns) + 1, label |-> label,
                          entryIds |-> entryIds, occurrenceCount |-> Len(entryIds),
                          firstSeen |-> today, lastSeen |-> today,
                          resolved |-> FALSE ]) ],
              id |-> Len(db.patterns) + 1 ]

\* getActivePatterns(): resolved = 0 AND occurrence_count >= 3 ORDER BY
\* last_seen DESC.
getActivePatternsWithResolved(db) ==
    LET rows == SelectSeq(db.patterns, LAMBDA pat : pat.occurrenceCount >= 3)
    IN StableSort(rows, [ pat \in Range(rows) |-> 0 - pat.lastSeen ])

getActivePatterns(db) ==
    LET rows == SelectSeq(db.patterns, LAMBDA pat :
                    ~pat.resolved /\ pat.occurrenceCount >= 3)
    IN StableSort(rows, [ pat \in Range(rows) |-> 0 - pat.lastSeen ])

\* resolvePattern(): UPDATE ... SET resolved = 1 WHERE id = ?; true when a
\* row matched.
resolvePattern(db, patternId) ==
    [ db |-> [ db EXCEPT !.patterns =
                 [ i \in DOMAIN db.patterns |->
                     IF db.patterns[i].id = patternId
                     THEN [ db.patterns[i] EXCEPT !.resolved = TRUE ]
                     ELSE db.patterns[i] ] ],
      changed |-> \E i \in DOMAIN db.patterns : db.patterns[i].id = patternId ]

(***************************************************************************)
(* The embedder: a deterministic text -> vector function behind a          *)
(* process-local cache.                                                    *)
(***************************************************************************)
Contents == {"c1", "c2"}

embed(text) == IF text = "c1" THEN 0 ELSE IF text = "c2" THEN 60 ELSE 130

(***************************************************************************)
(* Replication: each host appends to its own log in the shared repository  *)
(* and reads the logs of the others.                                       *)
(***************************************************************************)
Hosts == {"hx", "hy"}

\* A listing of entries/ returns the files in name order.
HostOrder == << "hx", "hy" >>

\* lastPushAt / lastPullAt before the first push or pull.
NoStamp == 0 - 1

\* new Date().toISOString(), in minutes.
nowUtc(today) == today * 1440 + 1

\* The instant an entry's date and time denote.
entryTs(e) == e.date * 1440 + e.time

toSyncable(entry) ==
    [ id |-> entry.id, date |-> entry.date, time |-> entry.time,
      type |-> entry.type, tags |-> entry.tags, content |-> entry.content,
      tier |-> IF entry.tier = NULL THEN "working" ELSE entry.tier,
      pinned |-> entry.pinned ]

fromSyncable(s) ==
    [ id |-> s.id, date |-> s.date, time |-> s.time, type |-> s.type,
      tags |-> s.tags, content |-> s.content, sourceFile |-> "sync",
      tier |-> s.tier, pinned |-> s.pinned, accessCount |-> 0,
      lastAccessed |-> NoDay, archived |-> FALSE, label |-> NULL ]

\* hasEntry() that finds nothing.
hasEntryNever(db, id) == FALSE

\* Store method pullEntries() calls whose body is not part of sqlite.ts.
hasEntry(db, id) == RowsWithId(db, id) # {}

NewSyncState ==
    [ lastPushAt |-> NoStamp, lastPullAt |-> NoStamp,
      remoteCursors |-> [ h \in {} |-> 0 ] ]

\* pushEntries(): the entries it selects, newest first.
pushSelected(store, state, today) ==
    LET all == list(store, today, [ type |-> NULL, days |-> 0, includeArchived |-> FALSE ])
    IN IF state.lastPushAt = NoStamp THEN all
       ELSE SelectSeq(all, LAMBDA e : entryTs(e) > state.lastPushAt)

\* pushEntries() without the filter on the ids of the local cache.
pushDedupedIgnoringCache(store, state, cacheLines, today) ==
    LET sel == pushSelected(store, state, today)
    IN [ i \in DOMAIN sel |-> toSyncable(sel[i]) ]

\* pushEntries(): the lines it appends to the local cache of the own log.
pushDeduped(store, state, cacheLines, today) ==
    LET sel == pushSelected(store, state, today)
        newLines == [ i \in DOMAIN sel |-> toSyncable(sel[i]) ]
        existingIds == { cacheLines[i].id : i \in DOMAIN cacheLines }
    IN SelectSeq(newLines, LAMBDA line : line.id \notin existingIds)

\* pullEntries() with the lines before the cursor and one more skipped.
pullNewLinesSkippingOne(lines, cursor) == SubSeq(lines, cursor + 2, Len(lines))

\* pullEntries(): lines.slice(cursor).
pullNewLines(lines, cursor) == SubSeq(lines, cursor + 1, Len(lines))

\* pullEntries(): the loop over the new lines of one file.
RECURSIVE pullLines(_, _, _)
pullLines(store, lines, embedOk) ==
    IF lines = << >> THEN [ db |-> store, pulled |-> 0 ]
    ELSE IF hasEntry(store, Head(lines).id)
         THEN pullLines(store, Tail(lines), embedOk)
         ELSE LET ins == insert(store, fromSyncable(Head(lines)))
                  withVec == IF embedOk
                             THEN insertVec(ins.db, ins.rowid, embed(Head(lines).content))
                             ELSE ins.db
                  rest == pullLines(withVec, Tail(lines), embedOk)
              IN [ db |-> rest.db, pulled |-> rest.pulled + 1 ]

cursorOf(state, machine) ==
    IF machine \in DOMAIN state.remoteCursors THEN state.remoteCursors[machine] ELSE 0

\* pullEntries() leaving the cursor one line before the end of the file.
cursorAfterOneShort(lines) == Len(lines) - 1

\* pullEntries(): state.remoteCursors[remoteMachineId] = lines.length.
cursorAfter(lines) == Len(lines)

\* pullEntries(): the loop over the listed files.
RECURSIVE pullFiles(_, _, _, _, _, _)
pullFiles(store, state, remote, machineId, files, outcome) ==
    IF files = << >> THEN [ db |-> store, state |-> state, pulled |-> 0 ]
    ELSE LET remoteMachineId == Head(files)
             lines == remote[remoteMachineId]
             newLines == pullNewLines(lines, cursorOf(state, remoteMachineId))
         IN IF \/ remoteMachineId = machineId
               \/ outcome = "downloadFails"
               \/ newLines = << >>
            THEN pullFiles(store, state, remote, machineId, Tail(files), outcome)
            ELSE LET one == pullLines(store, newLines, outcome # "embedFails")
                     moved == [ state EXCEPT !.remoteCursors =
                                  Put(@, remoteMachineId, cursorAfter(lines)) ]
                     rest == pullFiles(one.db, moved, remote, machineId,
                                       Tail(files), outcome)
                 IN [ db |-> rest.db, state |-> rest.state,
                      pulled |-> rest.pulled + one.pulled ]

PullOutcomes == {"ok", "embedFails", "listFails", "downloadFails", "writeFails"}

\* pullEntries(): the store afterwards, the state it holds, whether it
\* wrote that state to the state file, and whether it threw.
pullEntries(store, state, remote, machineId, outcome, today) ==
    IF outcome = "listFails"
    THEN [ db |-> store, state |-> state, pulled |-> 0, wrote |-> FALSE, throws |-> FALSE ]
    ELSE LET remoteFiles == SelectSeq(HostOrder, LAMBDA h : remote[h] # << >>)
             out == pullFiles(store, state, remote, machineId, remoteFiles, outcome)
         IN [ db |-> out.db,
              state |-> [ out.state EXCEPT !.lastPullAt = nowUtc(today) ],
              pulled |-> out.pulled,
              wrote |-> outcome # "writeFails",
              throws |-> outcome = "writeFails" ]

\* What syncCycle() returned, with the outcome of its pull ("none" when
\* pullEntries() was not called) and whether every other host's log was
\* complete when the pull ran.
NoResult ==
    [ pushed |-> 0, pulled |-> 0, error |-> "", pull |-> "none", afterPeers |-> FALSE ]

NetWith(stores) ==
    [ store |-> stores,
      cacheFile |-> [ h \in Hosts |-> << >> ],
      remote |-> [ h \in Hosts |-> << >> ],
      state |-> [ h \in Hosts |-> NewSyncState ],
      cyc |-> [ h \in Hosts |-> << >> ],
      result |-> [ h \in Hosts |-> NoResult ] ]

\* new SyncScheduler(): not running (with the number of cycles it started
\* and what its last tick did).
NewScheduler == [ timer |-> FALSE, running |-> FALSE, started |-> 0, lastTick |-> "none" ]

(***************************************************************************)
(* The Stop hook's files.  A transcript is a sequence of complete lines of  *)
(* LineBytes bytes each, the last byte being the newline; offsets count    *)
(* bytes; the clock counts minutes.  A line is a text that classifies as a *)
(* message, or "short", a line readNewMessages() drops.  MaxChunk stands   *)
(* for MAX_TRANSCRIPT_BYTES and ScanCap for the 10 messages of a scan.     *)
(***************************************************************************)
MaxLines == 4
MaxStopLines == 2
LineBytes == 3
MaxChunk == 10
ScanCap == 2
MaxHanded == 2
MaxClock == 5
MaxHandoffs == 2
DEBOUNCE_MS == 5

TFiles == {"ta", "tb"}

\* readCursor() of a missing or corrupt cursor file.
NoCursor == [ file |-> NULL, offset |-> 0 ]

NoScan ==
    [ stale |-> FALSE, readFailed |-> FALSE, messages |-> << >>, failed |-> 0,
      written |-> NoCursor ]

\* Before the first hook run: no transcript ("no"; later "yes" or "gone"),
\* no cursor file, no debounce file (with the times of the handoff entries
\* written so far, what the last scan saw, and how often each line of a
\* transcript was handed to classification).
NewHook ==
    [ files |-> [ f \in TFiles |-> << >> ], exists |-> [ f \in TFiles |-> "no" ],
      newest |-> NULL, cursor |-> NoCursor,
      lastHandoff |-> NoStamp, now |-> 0, handoffs |-> << >>, scan |-> NoScan,
      handed |-> [ f \in TFiles |-> [ at \in 1 .. MaxLines |-> 0 ] ] ]

\* The lines of content that lie whole between byte from and byte to, as
\* messages (with the number of the line), without the lines that carry no
\* qualifying message.
ParsedMessages(content, from, to) ==
    SelectSeq([ k \in DOMAIN content |-> [ text |-> content[k], at |-> k ] ],
              LAMBDA m : /\ from <= LineBytes * (m.at - 1)
                         /\ LineBytes * m.at - 1 <= to
                         /\ m.text # "short")

\* readNewMessages() whose failed read resets the offset.
readNewMessagesFromStart(content, byteOffset, readFails) ==
    LET fileSize == LineBytes * Len(content)
        readLength == MinOf({fileSize - byteOffset, MaxChunk})
    IN IF readFails THEN [ messages |-> << >>, newOffset |-> 0 ]
       ELSE IF byteOffset >= fileSize THEN [ messages |-> << >>, newOffset |-> fileSize ]
       ELSE [ messages |-> ParsedMessages(content, byteOffset, byteOffset + readLength),
              newOffset |-> MinOf({byteOffset + readLength, fileSize}) ]

\* readNewMessages(): at most MAX_TRANSCRIPT_BYTES from byteOffset, split
\* on newlines, the pieces that parse; a read that fails leaves the offset
\* where it was.
readNewMessages(content, byteOffset, readFails) ==
    LET fileSize == LineBytes * Len(content)
        readLength == MinOf({fileSize - byteOffset, MaxChunk})
    IN IF readFails THEN [ messages |-> << >>, newOffset |-> byteOffset ]
       ELSE IF byteOffset >= fileSize THEN [ messages |-> << >>, newOffset |-> fileSize ]
       ELSE [ messages |-> ParsedMessages(content, byteOffset, byteOffset + readLength),
              newOffset |-> MinOf({byteOffset + readLength, fileSize}) ]

\* The loop of scanTranscript() over messages the embedder handles: a
\* message nearer than 0.55 to a stored vector is skipped, any other one is
\* saved as a working insight with its vector.
RECURSIVE scanMessages(_, _, _)
scanMessages(d, day, msgs) ==
    IF msgs = << >> THEN d
    ELSE LET msgEmb == embed(Head(msgs).text)
             similar == searchVec(d, msgEmb, 1)
             ins == insert(d, [ id |-> NewRowid(d), date |-> day, time |-> 0,
                                type |-> "insight", tags |-> << "transcript-scan" >>,
                                content |-> Head(msgs).text, sourceFile |-> "md",
                                tier |-> "working", accessCount |-> 0,
                                lastAccessed |-> NoDay, pinned |-> FALSE,
                                archived |-> FALSE, label |-> NULL ])
         IN IF similar # << >> /\ Dist(d.vec[similar[1]], msgEmb) < 55
            THEN scanMessages(d, day, Tail(msgs))
            ELSE scanMessages(insertVec(ins.db, ins.rowid, msgEmb), day, Tail(msgs))

\* scanTranscript().  failed is the position, among the messages read, of
\* the one the embedder fails on (0: none): the exception leaves the
\* function, and main() catches it.
scanTranscript(h, d, day, readFails, failed) ==
    LET transcriptFile == h.newest
        offset == IF h.cursor.file = transcriptFile THEN h.cursor.offset ELSE 0
        read == readNewMessages(h.files[transcriptFile], offset, readFails)
        capped == Take(read.messages, ScanCap)
        written == [ file |-> transcriptFile, offset |-> read.newOffset ]
        seen == [ stale |-> h.cursor.file # NULL /\ h.exists[h.cursor.file] = "gone",
                  readFailed |-> readFails, messages |-> capped, failed |-> failed,
                  written |-> written ]
    IN IF transcriptFile = NULL THEN [ db |-> d, cursor |-> h.cursor, scan |-> NoScan ]
       ELSE IF capped = << >> THEN [ db |-> d, cursor |-> written, scan |-> seen ]
       ELSE IF failed # 0
       THEN [ db |-> scanMessages(d, day, Take(capped, failed - 1)),
              cursor |-> h.cursor, scan |-> seen ]
       ELSE [ db |-> scanMessages(d, day, capped), cursor |-> written, scan |-> seen ]

\* shouldDebounce(): the debounce file holds a time less than 5 minutes old.
shouldDebounce(h) == h.lastHandoff # NoStamp /\ h.now - h.lastHandoff < DEBOUNCE_MS

\* index.touchEntry(), whose body is not part of sqlite.ts.
touchEntry(d, day, id) == bumpAccess(d, day, {id})

RECURSIVE touchAll(_, _, _)
touchAll(d, day, rows) ==
    IF rows = << >> THEN d ELSE touchAll(touchEntry(d, day, Head(rows).id), day, Tail(rows))

\* main() after the scan, on a store that holds insights and handoffs only:
\* the debounce check, list({days: 1}), the handoff entry, its vector, the
\* touches and updateDebounceTimestamp().  embedFails: embedder.embed() of
\* the handoff text rejects, and main() ends there.
handoff(h, d, day, embedFails) ==
    LET todayEntries == list(d, day, [ type |-> NULL, days |-> 1, limit |-> 20,
                                         includeArchived |-> FALSE ])
        todayInsights == Take(SelectSeq(todayEntries, LAMBDA e : e.type = "insight"), 5)
        ins == insert(d, [ id |-> NewRowid(d), date |-> day, time |-> 0,
                           type |-> "handoff", tags |-> << >>,
                           content |-> "handoff", sourceFile |-> "md",
                           tier |-> assignTier("handoff", NULL), accessCount |-> 0,
                           lastAccessed |-> NoDay, pinned |-> FALSE,
                           archived |-> FALSE, label |-> NULL ])
        wrote == [ h EXCEPT !.handoffs = Append(@, h.now) ]
    IN IF shouldDebounce(h) \/ todayEntries = << >> THEN [ hook |-> h, db |-> d ]
       ELSE IF embedFails THEN [ hook |-> wrote, db |-> ins.db ]
       ELSE [ hook |-> [ wrote EXCEPT !.lastHandoff = h.now ],
              db |-> touchAll(insertVec(ins.db, ins.rowid, embed("handoff")),
                              day, todayInsights) ]

(***************************************************************************)
(* GitWatcher.  The clock counts seconds; a timer is the time at which it  *)
(* is due, and fires then.  HEAD names a branch.                           *)
(***************************************************************************)
MaxWatchClock == 4
MaxRuns == 2
MaxBurst == 2
DebounceDelay == 2
NoTimer == 0 - 1

Branches == {"main", "dev"}

\* A GitWatcher after its constructor, in a repository on main (with the
\* clock, the events no handleEvent() run has answered yet, the runs so
\* far, and whether stop() cancelled a pending timer).
NewWatcher ==
    [ watchers |-> 0, lastHead |-> "", debounceTimer |-> NoTimer, head |-> "main",
      now |-> 0, firstEvent |-> NoTimer, lastEvent |-> NoTimer, unanswered |-> 0,
      runs |-> << >>,
      lastStop |-> "none" ]

\* scheduleEvent() that leaves an armed timer as it is.
scheduleEventKeepsTimer(w) ==
    [ w EXCEPT !.debounceTimer = IF @ # NoTimer THEN @ ELSE w.now + DebounceDelay,
               !.firstEvent = IF w.unanswered = 0 THEN w.now ELSE @,
               !.lastEvent = w.now, !.unanswered = @ + 1 ]

\* scheduleEvent(): clearTimeout() of an armed timer, then setTimeout(2000).
scheduleEvent(w) ==
    [ w EXCEPT !.debounceTimer = w.now + DebounceDelay,
               !.firstEvent = IF w.unanswered = 0 THEN w.now ELSE @,
               !.lastEvent = w.now, !.unanswered = @ + 1 ]

\* stop() without the clearTimeout().
stopKeepsTimer(w) ==
    [ w EXCEPT !.watchers = 0,
               !.lastStop = IF w.debounceTimer # NoTimer THEN "pending" ELSE "idle" ]

\* GitWatcher.stop().
stop(w) ==
    [ w EXCEPT !.debounceTimer = NoTimer, !.watchers = 0, !.unanswered = 0,
               !.lastStop = IF w.debounceTimer # NoTimer THEN "pending" ELSE "idle" ]

(***************************************************************************)
(* The markdown day file.  A text is a sequence of lines; a line is the    *)
(* title, blank, an entry header ("## time | type | tags"), an id comment  *)
(* ("<!-- id:x -->") or other text, whoever wrote it.  A tag is the        *)
(* sequence of its comma-free parts.                                       *)
(***************************************************************************)
MaxFileEntries == 2

Line(kind) ==
    [ kind |-> kind, time |-> 0, type |-> "", tags |-> << >>, id |-> 0, text |-> "" ]

HeaderLine(time, type, tagStr) ==
    [ Line("header") EXCEPT !.time = time, !.type = type, !.tags = tagStr ]

IdLine(id) == [ Line("id") EXCEPT !.id = id ]

TextLine(text) == [ Line("text") EXCEPT !.text = text ]

\* No day file yet (with the entries appendEntry() has returned so far).
NoFile == [ exists |-> FALSE, text |-> << >>, written |-> << >> ]

\* tags.join(", "): the parts of all tags, commas between them.
RECURSIVE JoinTags(_)
JoinTags(tags) == IF tags = << >> THEN << >> ELSE Head(tags) \o JoinTags(Tail(tags))

\* appendEntry(): the block it adds to the file.
entryBlock(time, type, tags, id, content) ==
    << Line("blank"), HeaderLine(time, type, JoinTags(tags)), IdLine(id) >> \o content

\* String.trim() of a text: without its leading and trailing blank lines.
RECURSIVE Trim(_)
Trim(text) ==
    IF text = << >> THEN text
    ELSE IF Head(text).kind = "blank" THEN Trim(Tail(text))
    ELSE IF text[Len(text)].kind = "blank" THEN Trim(SubSeq(text, 1, Len(text) - 1))
    ELSE text

\* parseMarkdownText() for the section whose header is line i of text: the
\* body runs to the next header; the id is that of the first id comment of
\* the body (0: none, a generated one), the content the body without it.
parseSection(text, i) ==
    LET later == { j \in DOMAIN text : j > i /\ text[j].kind = "header" }
        last == IF later = {} THEN Len(text) ELSE MinOf(later) - 1
        body == Trim(SubSeq(text, i + 1, last))
        idMatch == { j \in DOMAIN body : body[j].kind = "id" }
        first == IF idMatch = {} THEN 0 ELSE MinOf(idMatch)
    IN [ id |-> IF first = 0 THEN 0 ELSE body[first].id,
         time |-> text[i].time,
         type |-> text[i].type,
         tags |-> [ k \in DOMAIN text[i].tags |-> << text[i].tags[k] >> ],
         content |-> IF first = 0 THEN body
                     ELSE Trim(SubSeq(body, 1, first - 1)
                               \o SubSeq(body, first + 1, Len(body))) ]

\* parseMarkdownText(): text.split(/^## /m).slice(1), one entry a section.
parseMarkdownText(text) ==
    LET headers == SelectSeq([ i \in DOMAIN text |-> i ],
                             LAMBDA i : text[i].kind = "header")
    IN [ n \in DOMAIN headers |-> parseSection(text, headers[n]) ]

(***************************************************************************)
(* Store calls as the SQL statements they run.  No call opens a            *)
(* transaction, so every statement commits on its own and a crash keeps    *)
(* the statements that have run.                                           *)
(***************************************************************************)
Stmt(k, rowid, row, ids) == [ k |-> k, rowid |-> rowid, row |-> row, ids |-> ids ]

\* The effect of one statement on the three tables.  A DELETE FROM entries
\* runs with entries_ad dropped; the INSERTs run with entries_ai in place.
exec(db, s) ==
    CASE s.k = "insertOrReplace" -> insert(db, s.row).db
      [] s.k = "insertVec" -> insertVec(db, s.rowid, s.row)
      [] s.k = "updateArchived" -> archiveEntries(db, s.ids).db
      [] s.k = "deleteFtsRow" -> [ db EXCEPT !.fts = RemoveKeys(@, {s.rowid}) ]
      [] s.k = "deleteEntryRow" -> [ db EXCEPT !.entries = RemoveKeys(@, {s.rowid}) ]
      [] s.k = "insertRule" ->
            [ db EXCEPT !.entries = Put(@, NewRowid(db), s.row),
                        !.fts = entries_ai(@, NewRowid(db), s.row) ]
      [] s.k = "deleteFts" -> [ db EXCEPT !.fts = << >> ]
      [] s.k = "deleteEntries" -> [ db EXCEPT !.entries = << >> ]
      [] s.k = "deleteVec" -> [ db EXCEPT !.vec = << >> ]
      [] s.k = "deletePatterns" -> [ db EXCEPT !.patterns = << >> ]
      [] OTHER -> db

\* The statements of saveRule() and deleteRule() that remove the rule of a
\* label, if there is one.
removeRuleStmts(db, label) ==
    IF RuleRows(db, label) = {} THEN << >>
    ELSE LET existing == MinOf(RuleRows(db, label))
         IN << Stmt("deleteFtsRow", existing, NULL, {}),
               Stmt("dropTrigger", 0, NULL, {}),
               Stmt("deleteEntryRow", existing, NULL, {}),
               Stmt("createTrigger", 0, NULL, {}) >>

saveRuleStmts(db, today, now, id, label, content) ==
    removeRuleStmts(db, label) \o
    << Stmt("insertRule", 0,
            [ id |-> id, date |-> today, time |-> now, type |-> "rule",
              tags |-> << >>, content |-> content, sourceFile |-> "rule",
              tier |-> "longterm", accessCount |-> 0, lastAccessed |-> NoDay,
              pinned |-> TRUE, archived |-> FALSE, label |-> label ], {}) >>

clearAllStmts ==
    << Stmt("dropTrigger", 0, NULL, {}), Stmt("dropTrigger", 0, NULL, {}),
       Stmt("deleteFts", 0, NULL, {}), Stmt("deleteEntries", 0, NULL, {}),
       Stmt("deleteVec", 0, NULL, {}), Stmt("deletePatterns", 0, NULL, {}),
       Stmt("deleteFilePairs", 0, NULL, {}),
       Stmt("createTrigger", 0, NULL, {}), Stmt("createTrigger", 0, NULL, {}) >>

RECURSIVE execAll(_, _)
execAll(db, stmts) ==
    IF stmts = << >> THEN db ELSE execAll(exec(db, Head(stmts)), Tail(stmts))

\* No call in progress.
NoTx == [ stmts |-> << >>, before |-> EmptyDb, after |-> EmptyDb, crashed |-> FALSE ]

(***************************************************************************)
(* State.                                                                  *)
(***************************************************************************)
VARIABLES
    db,        \* the store of the process
    today,     \* the current day
    ret,       \* what the last archive or search call returned
    pending,   \* contextSave calls suspended in await embedder.embed()
    cache,     \* texts the embedder has cached
    lastRule,  \* per label, the content of the last saveRule not yet deleted
    net,       \* the replicating hosts: stores, logs, sync state, cycles
    sched,     \* per host, its SyncScheduler
    tx,        \* the store call in progress, statement by statement
    hook,      \* what the Stop hook reads and writes: transcripts, cursor, debounce file
    watcher,   \* the GitWatcher of the server process
    dayFile    \* the markdown file of today, as appendEntry() writes it

vars == << db, today, ret, pending, cache, lastRule, net, sched, tx, hook, watcher,
          dayFile >>

Ids == 1 .. (MaxRowid + 1)

Labels == {"la", "lb"}

UsedIds(d) == { d.entries[r].id : r \in DOMAIN d.entries }

\* generateId(): an id no row carries and no suspended save is holding.
FreshIds == Ids \ (UsedIds(db) \cup { p.id : p \in pending })

generateId == MinOf(FreshIds)

\* A return value: the call, its number, the ids of the entries it returned
\* (in order) and whether it threw.
Ret(op, n, rows, throws) ==
    [ op |-> op, n |-> n, ids |-> [ i \in DOMAIN rows |-> rows[i].id ], throws |-> throws ]

NoRet == Ret("none", 0, << >>, FALSE)

NoOpts == [ type |-> NULL, days |-> 0, limit |-> 20, includeArchived |-> FALSE ]

InitWith(store) ==
    /\ db = store
    /\ today = StartDay
    /\ ret = NoRet
    /\ pending = {}
    /\ cache = {}
    /\ lastRule = [ l \in Labels |-> NULL ]
    /\ net = NetWith([ h \in Hosts |-> EmptyDb ])
    /\ sched = [ h \in Hosts |-> NewScheduler ]
    /\ tx = NoTx
    /\ hook = NewHook
    /\ watcher = NewWatcher
    /\ dayFile = NoFile

Init == InitWith(EmptyDb)

(***************************************************************************)
(* Store calls and tool handlers of one process.                           *)
(***************************************************************************)
\* appendEntry(): a new entry stamped with the current date and time.
appendEntry(id, content, type, tags) ==
    [ id |-> id, date |-> today, time |-> 0, type |-> type, tags |-> tags,
      content |-> content, sourceFile |-> "md", tier |-> NULL,
      accessCount |-> 0, lastAccessed |-> NoDay, pinned |-> FALSE,
      archived |-> FALSE, label |-> NULL ]

\* contextSave() after the embedding has resolved: insertVec, then return.
\* For an issue with two or more similar issues besides itself the pattern
\* hook follows.
saveTail(d, rowid, id, content, type) ==
    IF insertVecThrows(d, rowid) THEN d
    ELSE LET withVec == insertVec(d, rowid, embed(content))
             similar == SelectSeq(findSimilarIssues(withVec, today, embed(content), 30, 50),
                                  LAMBDA e : e.id # id)
             allIds == << id >> \o [ i \in DOMAIN similar |-> similar[i].id ]
         IN IF type = "issue" /\ Len(similar) >= 2
            THEN createOrUpdatePattern(withVec, today, content, allIds).db
            ELSE withVec

\* contextSave() up to await embedder.embed(): tier assignment, appendEntry,
\* insert.  A cached text resolves without yielding to another handler, so
\* the call then runs to its end in the same step.
SaveBegin(content, type, tier, pinned) ==
    /\ FreshIds # {}
    /\ content \in cache \/ Cardinality(pending) < MaxPending
    /\ NewRowid(db) <= MaxRowid
    /\ LET entry == [ appendEntry(generateId, content, type, << >>) EXCEPT
                        !.tier = assignTier(type, tier), !.pinned = pinned ]
           ins == insert(db, entry)
       IN IF content \in cache
          THEN /\ db' = saveTail(ins.db, ins.rowid, entry.id, content, type)
               /\ pending' = pending
          ELSE /\ db' = ins.db
               /\ pending' = pending \cup
                    { [ rowid |-> ins.rowid, id |-> entry.id, content |-> content,
                        type |-> type ] }
    /\ ret' = NoRet
    /\ UNCHANGED << dayFile, hook, watcher, tx, net, sched, today, cache, lastRule >>

\* The embedding of a suspended contextSave resolves.
SaveEnd(p) ==
    /\ p \in pending
    /\ pending' = pending \ {p}
    /\ cache' = cache \cup {p.content}
    /\ db' = saveTail(db, p.rowid, p.id, p.content, p.type)
    /\ ret' = NoRet
    /\ UNCHANGED << dayFile, hook, watcher, tx, net, sched, today, lastRule >>

\* The embedder rejects: contextSave throws, the entry row stays.
SaveFail(p) ==
    /\ p \in pending
    /\ pending' = pending \ {p}
    /\ ret' = NoRet
    /\ UNCHANGED << dayFile, hook, watcher, tx, net, sched, db, today, cache, lastRule >>

\* ContextIndex.insert() called directly (hooks, rebuild, pull).
Insert(entry) ==
    /\ NewRowid(db) <= MaxRowid
    /\ db' = insert(db, entry).db
    /\ ret' = NoRet
    /\ UNCHANGED << dayFile, hook, watcher, tx, net, sched, today, pending, cache, lastRule >>

\* ContextIndex.insertVec() with the rowid of an entry row.
InsertVec(rowid, embedding) ==
    /\ rowid \in DOMAIN db.entries
    /\ db' = insertVec(db, rowid, embedding)
    /\ ret' = NoRet
    /\ UNCHANGED << dayFile, hook, watcher, tx, net, sched, today, pending, cache, lastRule >>

\* contextArchive().
Archive(ids) ==
    /\ db' = archiveEntries(db, ids).db
    /\ ret' = Ret("archive", archiveEntries(db, ids).changes, << >>, FALSE)
    /\ UNCHANGED << dayFile, hook, watcher, tx, net, sched, today, pending, cache, lastRule >>

\* contextList().
List(opts) ==
    /\ ret' = Ret("list", 0, list(db, today, opts), FALSE)
    /\ UNCHANGED << dayFile, hook, watcher, tx, net, sched, db, today, pending, cache, lastRule >>

\* contextSearch() in fast mode: search() and an access bump.
SearchFast(query, opts) ==
    LET results == search(db, today, query, opts)
    IN /\ \A i \in DOMAIN results : results[i].accessCount < MaxAccess
       /\ IF searchThrows(query)
          THEN /\ db' = db
               /\ ret' = Ret("search", 0, << >>, TRUE)
          ELSE /\ db' = bumpAccess(db, today, { results[i].id : i \in DOMAIN results })
               /\ ret' = Ret("search", 0, results, FALSE)
       /\ UNCHANGED << dayFile, hook, watcher, tx, net, sched, today, pending, cache, lastRule >>

\* contextSearch() in hybrid mode, from the call of hybridSearch() on.
SearchHybrid(query, opts) ==
    LET out == hybridSearch(db, today, query, embed(query), opts)
    IN /\ \A i \in DOMAIN out.result : out.result[i].accessCount < MaxAccess
       /\ db' = out.db
       /\ ret' = Ret("hybridSearch", 0, out.result, out.throws)
       /\ UNCHANGED << dayFile, hook, watcher, tx, net, sched, today, pending, cache, lastRule >>

\* The maintenance passes, alone and as runMaintenance().
DecayEphemeral ==
    /\ db' = decayEphemeral(db, today).db
    /\ ret' = Ret("decayEphemeral", decayEphemeral(db, today).changes, << >>, FALSE)
    /\ UNCHANGED << dayFile, hook, watcher, tx, net, sched, today, pending, cache, lastRule >>

DemoteIdle ==
    /\ db' = demoteIdle(db, today).db
    /\ ret' = Ret("demoteIdle", demoteIdle(db, today).changes, << >>, FALSE)
    /\ UNCHANGED << dayFile, hook, watcher, tx, net, sched, today, pending, cache, lastRule >>

PromoteStable ==
    /\ db' = promoteStable(db, today).db
    /\ ret' = Ret("promoteStable", promoteStable(db, today).changes, << >>, FALSE)
    /\ UNCHANGED << dayFile, hook, watcher, tx, net, sched, today, pending, cache, lastRule >>

PromoteFrequent ==
    /\ db' = promoteFrequent(db).db
    /\ ret' = Ret("promoteFrequent", promoteFrequent(db).changes, << >>, FALSE)
    /\ UNCHANGED << dayFile, hook, watcher, tx, net, sched, today, pending, cache, lastRule >>

RunMaintenance ==
    /\ \A r \in DOMAIN db.entries : Len(db.entries[r].content) <= MaxContentLen
    /\ db' = runMaintenance(db, today).db
    /\ ret' = [ op |-> "runMaintenance", n |-> 0, ids |-> << >>, throws |-> FALSE,
                 report |-> runMaintenance(db, today).report ]
    /\ UNCHANGED << dayFile, hook, watcher, tx, net, sched, today, pending, cache, lastRule >>

\* createOrUpdatePattern(), contextResolvePattern(), getActivePatterns().
CreateOrUpdatePattern(label, entryIds) ==
    /\ Len(db.patterns) < MaxPatterns
    /\ db' = createOrUpdatePattern(db, today, label, entryIds).db
    /\ ret' = Ret("createOrUpdatePattern",
                  createOrUpdatePattern(db, today, label, entryIds).id, << >>, FALSE)
    /\ UNCHANGED << dayFile, hook, watcher, tx, net, sched, today, pending, cache, lastRule >>

ResolvePattern(patternId) ==
    /\ db' = resolvePattern(db, patternId).db
    /\ ret' = Ret("resolvePattern",
                  IF resolvePattern(db, patternId).changed THEN 1 ELSE 0, << >>, FALSE)
    /\ UNCHANGED << dayFile, hook, watcher, tx, net, sched, today, pending, cache, lastRule >>

GetActivePatterns ==
    /\ ret' = Ret("getActivePatterns", 0, getActivePatterns(db), FALSE)
    /\ UNCHANGED << dayFile, hook, watcher, tx, net, sched, db, today, pending, cache, lastRule >>

\* contextSaveRule(), contextDeleteRule(), clearAll().
SaveRule(label, content) ==
    /\ FreshIds # {}
    /\ NewRowid(removeRule(db, label)) <= MaxRowid
    /\ db' = saveRule(db, today, 0, generateId, label, content).db
    /\ lastRule' = [ lastRule EXCEPT ![label] = content ]
    /\ ret' = NoRet
    /\ UNCHANGED << dayFile, hook, watcher, tx, net, sched, today, pending, cache >>

DeleteRule(label) ==
    /\ db' = deleteRule(db, label).db
    /\ lastRule' = [ lastRule EXCEPT ![label] = NULL ]
    /\ ret' = NoRet
    /\ UNCHANGED << dayFile, hook, watcher, tx, net, sched, today, pending, cache >>

\* contextListRules().
ListRules ==
    /\ ret' = Ret("listRules", 0, listRules(db), FALSE)
    /\ UNCHANGED << dayFile, hook, watcher, tx, net, sched, db, today, pending, cache, lastRule >>

ClearAll ==
    /\ db' = clearAll(db)
    /\ lastRule' = [ l \in Labels |-> NULL ]
    /\ ret' = NoRet
    /\ UNCHANGED << dayFile, hook, watcher, tx, net, sched, today, pending, cache >>

(***************************************************************************)
(* Spec: the store API driven by one process -- insert, insertVec,         *)
(* archive, the three queries and maintenance.                             *)
(***************************************************************************)
\* Entries as the callers of insert() build them: dated today or in the
\* past (rebuilt or pulled entries), tier assigned by type.
NewEntries ==
    { [ appendEntry(generateId, "c1", type, << >>) EXCEPT
          !.date = today - age, !.tier = assignTier(type, NULL), !.pinned = pinned ] :
      type \in {"issue", "progress"}, pinned \in BOOLEAN, age \in {0, 20} }

SearchOpts ==
    { [ type |-> NULL, days |-> 0, limit |-> limit, includeArchived |-> ia ] :
      limit \in {1, 20}, ia \in BOOLEAN }

HybridOpts ==
    { [ type |-> NULL, days |-> 0, limit |-> limit, tier |-> NULL,
        includeArchived |-> ia ] : limit \in {1, 20}, ia \in BOOLEAN }

Next ==
    \/ FreshIds # {} /\ \E e \in NewEntries : Insert(e)
    \/ \E r \in DOMAIN db.entries : InsertVec(r, embed(db.entries[r].content))
    \/ \E ids \in SUBSET UsedIds(db) : ids # {} /\ Archive(ids)
    \/ \E ia \in BOOLEAN : List([ NoOpts EXCEPT !.includeArchived = ia ])
    \/ \E opts \in SearchOpts : SearchFast("c1", opts)
    \/ \E opts \in HybridOpts : SearchHybrid("c1", opts)
    \/ RunMaintenance

Spec == Init /\ [][Next]_vars

(***************************************************************************)
(* C1: with include_archived = false, list(), search() and hybridSearch()  *)
(* never return an archived entry, in any reachable store.                 *)
(***************************************************************************)
Queries == {"c1", "c2", "issue"}

DefaultOpts ==
    { [ type |-> type, days |-> days, limit |-> limit, tier |-> NULL,
        includeArchived |-> FALSE ] :
      type \in {NULL, "issue"}, days \in {0, 7}, limit \in {1, 20} }

NoneArchived(rows) == \A i \in DOMAIN rows : ~rows[i].archived

\* C1: no default query returns an entry whose archived flag is true.
DefaultQueriesHideArchived ==
    \A opts \in DefaultOpts :
        /\ NoneArchived(list(db, today, opts))
        /\ \A q \in Queries :
              /\ NoneArchived(search(db, today, q, opts))
              /\ NoneArchived(hybridSearch(db, today, q, embed(q), opts).result)

\* An archived row that a query including archived entries returns, next to
\* a default hybrid search that has just returned something.
ArchivedRowHiddenFromSearch ==
    /\ ret.op = "hybridSearch" /\ ret.ids # << >> /\ ~ret.throws
    /\ \E r \in DOMAIN db.entries :
          /\ db.entries[r].archived
          /\ r \in Range(searchRowids(db, today, "c1",
                                      [ NoOpts EXCEPT !.includeArchived = TRUE ]))
          /\ r \in DOMAIN db.vec
          /\ db.entries[r].id \notin Range(ret.ids)

(***************************************************************************)
(* C6: what archive(ids) returns.                                          *)
(***************************************************************************)
FlippedToArchived(before, after) ==
    Cardinality({ r \in DOMAIN before.entries \cap DOMAIN after.entries :
                    ~before.entries[r].archived /\ after.entries[r].archived })

\* C6: archive(ids) returns the number of entries it changed from not
\* archived to archived (so 0 for pinned ids and 0 when repeated).
ArchiveReturnsNumberChanged ==
    [][ret'.op = "archive" => ret'.n = FlippedToArchived(db, db')]_vars

(***************************************************************************)
(* SpecMaint: archive, access bumps and the maintenance passes on a store  *)
(* that already holds old entries with their vectors.                      *)
(***************************************************************************)
\* Smallest cluster findConsolidationCandidates() reports.
MinCluster == 3

SeedEntry(id, kind) ==
    [ id |-> id, date |-> StartDay - kind.age, time |-> 0, type |-> kind.type,
      tags |-> << >>, content |-> "c1", sourceFile |-> "md",
      tier |-> assignTier(kind.type, NULL), accessCount |-> 0,
      lastAccessed |-> NoDay, pinned |-> kind.pinned, archived |-> FALSE,
      label |-> NULL ]

SeedKinds ==
    { [ type |-> type, pinned |-> pinned, age |-> age ] :
      type \in {"issue", "progress"}, pinned \in BOOLEAN, age \in {20} }

\* The store after inserting the kinds in order, each with its vector.
RECURSIVE Seeded(_)
Seeded(kinds) ==
    IF kinds = << >> THEN EmptyDb
    ELSE LET n == Len(kinds)
             ins == insert(Seeded(SubSeq(kinds, 1, n - 1)), SeedEntry(n, kinds[n]))
         IN insertVec(ins.db, ins.rowid, embed("c1"))

InitMaint == \E kinds \in [ 1 .. MinCluster -> SeedKinds ] : InitWith(Seeded(kinds))

NextMaint ==
    \/ \E ids \in SUBSET UsedIds(db) : ids # {} /\ Archive(ids)
    \/ \E opts \in HybridOpts : SearchHybrid("c1", opts)
    \/ DecayEphemeral
    \/ DemoteIdle
    \/ PromoteStable
    \/ PromoteFrequent
    \/ RunMaintenance

SpecMaint == InitMaint /\ [][NextMaint]_vars

(***************************************************************************)
(* C2: pinned entries are immune to archival and demotion.                 *)
(***************************************************************************)
TierRank(tier) == IF tier = "ephemeral" THEN 0 ELSE IF tier = "working" THEN 1 ELSE 2

\* C2: no step of archive, decay, demote or consolidation archives a pinned
\* entry or lowers its tier.
PinnedKeepsTierAndStaysUnarchived ==
    [][\A r \in DOMAIN db.entries :
          db.entries[r].pinned =>
             /\ r \in DOMAIN db'.entries
             /\ db'.entries[r].archived = db.entries[r].archived
             /\ TierRank(db'.entries[r].tier) >= TierRank(db.entries[r].tier)]_vars

\* A pinned, long idle issue that is still working and not archived after a
\* consolidation that rewrote another member of its cluster and archived
\* the third.
PinnedSurvivesConsolidation ==
    \E r, s, t \in DOMAIN db.entries :
        /\ db.entries[r].pinned /\ db.entries[r].type = "issue"
        /\ ~db.entries[r].archived /\ db.entries[r].tier = "working"
        /\ s # r /\ db.entries[s].content # "c1"
        /\ t # r /\ db.entries[t].archived

(***************************************************************************)
(* SpecStore: the write API of the store in any order -- insert with a new *)
(* or an existing id, insertVec, saveRule, deleteRule, clearAll.           *)
(***************************************************************************)
AnyEntries ==
    { [ appendEntry(id, content, "issue", << >>) EXCEPT !.tier = "working" ] :
      id \in Ids, content \in Contents }

NextStore ==
    \/ \E e \in AnyEntries : Insert(e)
    \/ \E e \in AnyEntries : e.content = "c1" /\ Insert([ e EXCEPT !.date = today + 1 ])
    \/ \E opts \in HybridOpts : opts.limit = 1 /\ SearchHybrid("c1", opts)
    \/ \E r \in DOMAIN db.entries : InsertVec(r, embed(db.entries[r].content))
    \/ \E l \in Labels, c \in Contents : SaveRule(l, c)
    \/ \E l \in Labels : DeleteRule(l)
    \/ ClearAll

SpecStore == Init /\ [][NextStore]_vars

\* C3: every row of the lexical index and of the vector index has the rowid
\* of an existing entry row.
IndexRowsReferToEntries ==
    /\ DOMAIN db.fts \subseteq DOMAIN db.entries
    /\ DOMAIN db.vec \subseteq DOMAIN db.entries

(***************************************************************************)
(* SpecRules: the rule tools, with archive and maintenance running on the  *)
(* same store.                                                             *)
(***************************************************************************)
NextRules ==
    \/ \E l \in Labels, c \in Contents : SaveRule(l, c)
    \/ \E l \in Labels : DeleteRule(l)
    \/ ListRules
    \/ \E ids \in SUBSET UsedIds(db) : ids # {} /\ Archive(ids)
    \/ RunMaintenance

SpecRules == Init /\ [][NextRules]_vars

RulesWithLabel(l) ==
    { i \in DOMAIN listRules(db) : listRules(db)[i].label = l }

\* C4: listRules() holds at most one rule per label, and exactly one, with
\* the saved content, for a label whose last call was saveRule.
OneRulePerLabel ==
    \A l \in Labels :
        /\ Cardinality(RulesWithLabel(l)) <= 1
        /\ lastRule[l] # NULL =>
              \E i \in DOMAIN listRules(db) :
                  /\ RulesWithLabel(l) = {i}
                  /\ listRules(db)[i].content = lastRule[l]

\* listRules() has just returned the one rule of a label that was saved a
\* second time with another content while the first row was there.
RuleSavedTwiceListedOnce ==
    /\ ret.op = "listRules" /\ Len(ret.ids) = 1
    /\ lastRule["la"] = "c2" /\ lastRule["lb"] = NULL
    /\ \E r \in DOMAIN db.entries :
          /\ db.entries[r].label = "la" /\ db.entries[r].content = "c2"
          /\ db.entries[r].id = ret.ids[1] /\ db.entries[r].id > 1

(***************************************************************************)
(* SpecServer: the tool handlers of one server process.  A save whose text *)
(* is not cached is suspended at its await and other handlers run.         *)
(***************************************************************************)
\* Hybrid searches that ask for one type, with or without one tier.
FilteredHybridOpts ==
    { [ type |-> type, days |-> 0, limit |-> limit, tier |-> tier,
        includeArchived |-> FALSE ] :
      type \in {"issue", "rule"}, limit \in {1, 20}, tier \in {NULL, "working"} }

NextServer ==
    \/ \E c \in Contents, type \in {"issue", "rule"} : SaveBegin(c, type, NULL, FALSE)
    \/ \E p \in pending : SaveEnd(p)
    \/ \E p \in pending : SaveFail(p)
    \/ \E opts \in SearchOpts : SearchFast("c1", opts)
    \/ \E opts \in HybridOpts \cup FilteredHybridOpts : SearchHybrid("c1", opts)
    \/ \E opts \in HybridOpts : SearchHybrid("", opts)
    \/ \E l \in Labels, c \in Contents : SaveRule(l, c)
    \/ RunMaintenance

SpecServer == Init /\ [][NextServer]_vars

\* C5: every entry of type rule has tier longterm.
RulesAreLongterm ==
    \A r \in DOMAIN db.entries :
        db.entries[r].type = "rule" => db.entries[r].tier = "longterm"

\* C10: no search returns an entry of a save that is between its insert and
\* its insertVec.
NoSearchBetweenInsertAndInsertVec ==
    ret.op \in {"search", "hybridSearch"} =>
        \A p \in pending : p.id \notin Range(ret.ids)

(***************************************************************************)
(* SpecSync: two hosts, each with a SyncScheduler whose ticks run          *)
(* syncCycle() -- push, then pull -- against the shared repository.        *)
(***************************************************************************)
RemoveAt(s, i) == SubSeq(s, 1, i - 1) \o SubSeq(s, i + 1, Len(s))

\* tick() without the finally block.
tickFinallyKeepsRunning(s) == s

\* tick(): finally { this.running = false }.
tickFinally(s) == [ s EXCEPT !.running = FALSE ]

\* tick() with the running check removed.
tickSkipsNever(s) == FALSE

\* tick(): if (this.running) return.
tickSkips(s) == s.running

\* SyncScheduler.tick() up to the first await inside syncCycle(): the
\* running check, running = true, readSyncState().
Tick(h) ==
    /\ sched[h].timer
    /\ IF tickSkips(sched[h])
       THEN /\ sched' = [ sched EXCEPT ![h].lastTick = "dropped" ]
            /\ net' = net
       ELSE /\ sched[h].started < MaxCycles
            /\ sched' = [ sched EXCEPT ![h] = [ @ EXCEPT !.running = TRUE,
                                                         !.started = @ + 1,
                                                         !.lastTick = "ran" ] ]
            /\ net' = [ net EXCEPT !.cyc[h] =
                          Append(@, [ pc |-> "push", state |-> net.state[h],
                                      pushed |-> 0 ]) ]
    /\ UNCHANGED << dayFile, hook, watcher, tx, db, today, ret, pending, cache, lastRule >>

\* The log of host o in the repository holds every entry that o wrote
\* itself and has not archived.
LogComplete(o) ==
    \A r \in DOMAIN net.store[o].entries :
        LET e == net.store[o].entries[r]
        IN (e.sourceFile # "sync" /\ ~e.archived) =>
              e.id \in { line.id : line \in Range(net.remote[o]) }

\* pushEntries() inside cycle i of host h; ok says whether the upload
\* succeeds.  A failed upload throws: syncCycle() returns and tick() ends.
Push(h, i, ok) ==
    /\ i \in DOMAIN net.cyc[h]
    /\ net.cyc[h][i].pc = "push"
    /\ LET c == net.cyc[h][i]
           deduped == pushDeduped(net.store[h], c.state, net.cacheFile[h], today)
           updatedContent == net.cacheFile[h] \o deduped
           pushedState == [ c.state EXCEPT !.lastPushAt = nowUtc(today) ]
       IN IF deduped = << >>
          THEN /\ ok
               /\ net' = [ net EXCEPT !.cyc[h][i] =
                             [ pc |-> "pull", state |-> net.state[h], pushed |-> 0 ] ]
               /\ sched' = sched
          ELSE IF ok
          THEN /\ net' = [ net EXCEPT !.cacheFile[h] = updatedContent,
                                      !.remote[h] = updatedContent,
                                      !.state[h] = pushedState,
                                      !.cyc[h][i] = [ pc |-> "pull", state |-> pushedState,
                                                      pushed |-> Len(deduped) ] ]
               /\ sched' = sched
          ELSE /\ net' = [ net EXCEPT !.cacheFile[h] = updatedContent,
                                      !.cyc[h] = RemoveAt(@, i),
                                      !.result[h] = [ NoResult EXCEPT
                                                        !.error = "push failed" ] ]
               /\ sched' = [ sched EXCEPT ![h] = tickFinally(@) ]
    /\ UNCHANGED << dayFile, hook, watcher, tx, db, today, ret, pending, cache, lastRule >>

\* pullEntries() inside cycle i of host h, then the return of syncCycle()
\* and the finally block of tick().
Pull(h, i, outcome) ==
    /\ i \in DOMAIN net.cyc[h]
    /\ net.cyc[h][i].pc = "pull"
    /\ (\A o \in Hosts : net.remote[o] = << >>) => outcome = "listFails"
    /\ LET c == net.cyc[h][i]
           out == pullEntries(net.store[h], c.state, net.remote, h, outcome, today)
       IN net' = [ net EXCEPT
                     !.store[h] = out.db,
                     !.state[h] = IF out.wrote THEN out.state ELSE @,
                     !.cyc[h] = RemoveAt(@, i),
                     !.result[h] =
                         [ pushed |-> c.pushed,
                           pulled |-> IF out.throws THEN 0 ELSE out.pulled,
                           error |-> IF out.throws THEN "pull failed" ELSE "",
                           pull |-> outcome,
                           afterPeers |-> \A o \in Hosts \ {h} : LogComplete(o) ] ]
    /\ sched' = [ sched EXCEPT ![h] = tickFinally(@) ]
    /\ UNCHANGED << dayFile, hook, watcher, tx, db, today, ret, pending, cache, lastRule >>

\* The stores the two hosts start from: disjoint ids, never synced.  Host
\* hx holds two entries, the second archived or not; hy holds one or none.
HostEntry(id, archived) ==
    [ id |-> id, date |-> StartDay, time |-> 0, type |-> "issue", tags |-> << >>,
      content |-> "c1", sourceFile |-> "md", tier |-> "working", accessCount |-> 0,
      lastAccessed |-> NoDay, pinned |-> FALSE, archived |-> archived, label |-> NULL ]

RECURSIVE StoreOf(_)
StoreOf(entries) ==
    IF entries = << >> THEN EmptyDb
    ELSE LET ins == insert(StoreOf(SubSeq(entries, 1, Len(entries) - 1)),
                           entries[Len(entries)])
         IN insertVec(ins.db, ins.rowid, embed(entries[Len(entries)].content))

HostStores ==
    { [ h \in Hosts |->
          IF h = "hx" THEN StoreOf(<< HostEntry(1, FALSE), HostEntry(2, archived) >>)
          ELSE IF some THEN StoreOf(<< HostEntry(3, FALSE) >>)
          ELSE EmptyDb ] : archived \in BOOLEAN, some \in BOOLEAN }

InitSync ==
    /\ db = EmptyDb
    /\ today = StartDay
    /\ ret = NoRet
    /\ pending = {}
    /\ cache = {}
    /\ lastRule = [ l \in Labels |-> NULL ]
    /\ \E stores \in HostStores : net = NetWith(stores)
    /\ sched = [ h \in Hosts |-> [ NewScheduler EXCEPT !.timer = TRUE ] ]
    /\ tx = NoTx
    /\ hook = NewHook
    /\ watcher = NewWatcher
    /\ dayFile = NoFile

NextSync ==
    \/ \E h \in Hosts : Tick(h)
    \/ \E h \in Hosts, i \in 1 .. MaxCycles, ok \in BOOLEAN : Push(h, i, ok)
    \/ \E h \in Hosts, i \in 1 .. MaxCycles, outcome \in PullOutcomes : Pull(h, i, outcome)

SpecSync == InitSync /\ [][NextSync]_vars

AllIds(d) == { d.entries[r].id : r \in DOMAIN d.entries }

\* Host h has run exactly one cycle, to its end, with nothing failing.
RanOneCleanCycle(h) ==
    /\ sched[h].started = 1 /\ net.cyc[h] = << >>
    /\ net.result[h].error = "" /\ net.result[h].pull = "ok"

PullRunsAfterPushFailure ==
    \A h \in Hosts :
        net.result[h].error = "push failed" => net.result[h].pull # "none"

(***************************************************************************)
(* C9: one scheduler runs at most one cycle at a time.                     *)
(***************************************************************************)
OneCycleInFlight ==
    \A h \in Hosts :
        /\ Len(net.cyc[h]) <= 1
        /\ sched[h].running <=> Len(net.cyc[h]) = 1

\* C9: a scheduler has at most one cycle in flight; a cycle starts only
\* while none is running, and a tick that is dropped changes nothing and
\* leaves nothing behind to run later.
SchedulerRunsOneCycleAtATime ==
    /\ []OneCycleInFlight
    /\ [][\A h \in Hosts :
            /\ Len(net'.cyc[h]) > Len(net.cyc[h]) => ~sched[h].running
            /\ (sched'[h].lastTick = "dropped" /\ sched[h].lastTick # "dropped") =>
                  sched[h].running /\ net' = net]_vars

\* A tick was dropped while the cycle of an earlier tick is between its
\* push and its pull.
TickDroppedDuringCycle ==
    \E h \in Hosts :
        /\ sched[h].lastTick = "dropped" /\ sched[h].running
        /\ Len(net.cyc[h]) = 1 /\ net.cyc[h][1].pc = "pull"

(***************************************************************************)
(* SpecCrash: the store calls run statement by statement, and the process  *)
(* may die between two statements; the next process opens the database as  *)
(* the committed statements left it.                                       *)
(***************************************************************************)
\* A store call is entered: its statements are fixed from what it reads.
Call(stmts) ==
    /\ tx.stmts = << >>
    /\ stmts # << >>
    /\ tx' = [ stmts |-> stmts, before |-> db, after |-> execAll(db, stmts),
               crashed |-> FALSE ]
    /\ UNCHANGED << dayFile, hook, watcher, db, today, ret, pending, cache, lastRule, net, sched >>

\* The next statement of the call runs and commits; after the last one the
\* call returns.
RunStmt ==
    /\ tx.stmts # << >>
    /\ db' = exec(db, Head(tx.stmts))
    /\ tx' = IF Tail(tx.stmts) = << >> THEN NoTx ELSE [ tx EXCEPT !.stmts = Tail(@) ]
    /\ UNCHANGED << dayFile, hook, watcher, today, ret, pending, cache, lastRule, net, sched >>

\* The process dies inside the call; init() of the next process recreates
\* the triggers and finds the tables as they are.
Crash ==
    /\ tx.stmts # << >>
    /\ tx' = [ tx EXCEPT !.stmts = << >>, !.crashed = TRUE ]
    /\ UNCHANGED << dayFile, hook, watcher, db, today, ret, pending, cache, lastRule, net, sched >>

\* A call of insert (a new working issue), insertVec, archiveEntries,
\* saveRule, deleteRule or clearAll starts; or the call in progress runs
\* its next statement; or the process dies.
NextCrash ==
    \/ /\ FreshIds # {} /\ NewRowid(db) <= MaxRowid
       /\ \E pinned \in BOOLEAN :
             Call(<< Stmt("insertOrReplace", 0,
                          [ appendEntry(generateId, "c1", "issue", << >>) EXCEPT
                              !.tier = "working", !.pinned = pinned ], {}) >>)
    \/ \E r \in DOMAIN db.entries :
          /\ ~insertVecThrows(db, r)
          /\ Call(<< Stmt("insertVec", r, embed(db.entries[r].content), {}) >>)
    \/ \E ids \in SUBSET UsedIds(db) :
          ids # {} /\ Call(<< Stmt("updateArchived", 0, NULL, ids) >>)
    \/ \E l \in Labels, c \in Contents :
          /\ FreshIds # {} /\ NewRowid(removeRule(db, l)) <= MaxRowid
          /\ Call(saveRuleStmts(db, today, 0, generateId, l, c))
    \/ \E l \in Labels : Call(removeRuleStmts(db, l))
    \/ Call(clearAllStmts)
    \/ RunStmt
    \/ Crash

SpecCrash == Init /\ [][NextCrash]_vars

\* C11: the store found after a crash inside a store call is the store
\* before the call or the store after it, in all three tables.
CrashKeepsAllOrNothing ==
    tx.crashed => db \in {tx.before, tx.after}

(***************************************************************************)
(* C12: a push whose upload fails.                                         *)
(***************************************************************************)
\* Host h's cycle ends in this step with its push failing.
PushFailsNow(h) ==
    /\ \E i \in DOMAIN net.cyc[h] : net.cyc[h][i].pc = "push"
    /\ Len(net'.cyc[h]) < Len(net.cyc[h])
    /\ net'.result[h].error = "push failed"

\* C12: a push whose upload fails leaves the local cache of the own log
\* and the sync state (lastPushAt) as they were.
FailedPushChangesNoDurableState ==
    [][\A h \in Hosts :
          PushFailsNow(h) =>
              /\ net'.cacheFile[h] = net.cacheFile[h]
              /\ net'.state[h] = net.state[h]]_vars

(***************************************************************************)
(* C13: the cursors after a pull.                                          *)
(***************************************************************************)
\* Host h's cycle ends in this step with a pull that fetched the logs.
PullFetchesNow(h) ==
    /\ \E i \in DOMAIN net.cyc[h] : net.cyc[h][i].pc = "pull"
    /\ Len(net'.cyc[h]) < Len(net.cyc[h])
    /\ net'.result[h].pull \in {"ok", "embedFails"}

AtEndOfLogs(h, state) ==
    \A o \in Hosts \ {h} : cursorOf(state, o) = Len(net.remote[o])

\* C13: after a pull that fetched the logs, the cursor of every other host
\* is the length of its log, and a pull that starts with the cursors there
\* processes no line and inserts no entry.
PullLeavesCursorsAtEndOfLogs ==
    [][\A h \in Hosts :
          PullFetchesNow(h) =>
              /\ \A o \in Hosts \ {h} :
                    cursorOf(net'.state[h], o) = Len(net.remote[o])
              /\ AtEndOfLogs(h, net.state[h]) =>
                    /\ net'.store[h] = net.store[h]
                    /\ net'.result[h].pulled = 0]_vars

\* A host's second cycle has pulled nothing because its cursor already
\* stood at the end of the other host's log.
SecondPullFindsNothingNew ==
    \E h \in Hosts : \E o \in Hosts \ {h} :
        /\ sched[h].started = 2 /\ net.cyc[h] = << >>
        /\ net.result[h].pull = "ok" /\ net.result[h].pulled = 0
        /\ net.state[h].lastPullAt # NoStamp
        /\ Len(net.remote[o]) > 0
        /\ cursorOf(net.state[h], o) = Len(net.remote[o])
        /\ \E r \in DOMAIN net.store[h].entries :
              net.store[h].entries[r].sourceFile = "sync"

(***************************************************************************)
(* SpecTiers: the maintenance passes on stores of two decisions whose age, *)
(* access count, tier, pinned and archived flags sit on either side of     *)
(* every bound the passes compare against.                                 *)
(***************************************************************************)
TierKinds ==
    { [ age |-> age, accessCount |-> n, tier |-> tier, pinned |-> p, archived |-> a ] :
      age \in {3, 4, 7, 8, 14, 15, 16, 61}, n \in {0, 1, 3},
      tier \in {"ephemeral", "working"}, p \in BOOLEAN, a \in BOOLEAN }

\* The store after inserting two seeded decisions, each with its vector; an
\* entry that was accessed was last accessed on the day it was written.
TierStore(k1, k2) ==
    LET seed(id, kind) ==
            [ SeedEntry(id, [ type |-> "decision", pinned |-> kind.pinned,
                              age |-> kind.age ])
                EXCEPT !.tier = kind.tier, !.accessCount = kind.accessCount,
                       !.lastAccessed = IF kind.accessCount > 0
                                        THEN StartDay - kind.age ELSE NoDay,
                       !.archived = kind.archived ]
        i1 == insert(EmptyDb, seed(1, k1))
        v1 == insertVec(i1.db, i1.rowid, embed("c1"))
        i2 == insert(v1, seed(2, k2))
    IN insertVec(i2.db, i2.rowid, embed("c1"))

InitTiers ==
    \E k1 \in TierKinds :
    \E k2 \in { k \in TierKinds : k.accessCount = 0 /\ ~k.pinned /\ ~k.archived
                                  /\ k.age \in {3, 4} } :
        InitWith(TierStore(k1, k2))

NextTiers ==
    \/ DecayEphemeral
    \/ DemoteIdle
    \/ PromoteStable
    \/ PromoteFrequent
    \/ RunMaintenance

SpecTiers == InitTiers /\ [][NextTiers]_vars

(***************************************************************************)
(* SpecPatterns: the pattern table under createOrUpdatePattern with any    *)
(* list of one or two entry ids, resolvePattern and getActivePatterns.     *)
(***************************************************************************)
IdLists == { << i >> : i \in Ids } \cup { << i, j >> : i, j \in Ids }

NextPatterns ==
    \/ \E ids \in IdLists : CreateOrUpdatePattern("c1", ids)
    \/ \E id \in 1 .. MaxPatterns + 1 : ResolvePattern(id)
    \/ GetActivePatterns

SpecPatterns == Init /\ [][NextPatterns]_vars

(***************************************************************************)
(* C14: the frame of run_maintenance.                                      *)
(***************************************************************************)
MaintenanceResults(store, day) ==
    { decayEphemeral(store, day).db, demoteIdle(store, day).db,
      promoteStable(store, day).db, promoteFrequent(store).db,
      consolidate(store, day).db, runMaintenance(store, day).db }

SameFields(old, new) ==
    /\ new.tier = old.tier
    /\ new.archived = old.archived
    /\ new.content = old.content
    /\ new.tags = old.tags

\* C14: a step of run_maintenance, or of any one of its passes (decay,
\* demote, promote-stable, promote-frequent, consolidation), leaves tier,
\* archived, content and tags of every entry that is pinned or archived at
\* the start of the step as they were.
MaintenanceLeavesPinnedAndArchivedAlone ==
    [][db' \in MaintenanceResults(db, today) =>
          \A r \in DOMAIN db.entries :
              (db.entries[r].pinned \/ db.entries[r].archived) =>
                  /\ r \in DOMAIN db'.entries
                  /\ SameFields(db.entries[r], db'.entries[r])]_vars

(***************************************************************************)
(* C15: what decay_ephemeral archives.                                     *)
(***************************************************************************)
DecayBound(accessCount) ==
    IF accessCount = 0 THEN 3 ELSE IF accessCount <= 2 THEN 7 ELSE 14

DueForDecay(e) ==
    /\ ~e.archived /\ ~e.pinned /\ e.tier = "ephemeral"
    /\ today - e.date > DecayBound(e.accessCount)

BeforeConsolidation(store, day) ==
    promoteFrequent(promoteStable(demoteIdle(decayEphemeral(store, day).db, day).db, day).db).db

\* The entries consolidation looks at: non-archived issues and decisions of
\* the last 30 days that are older than 3 days and have a vector.
ClusterMembers(store, day) ==
    { r \in DOMAIN store.entries :
        /\ ~store.entries[r].archived
        /\ store.entries[r].type \in {"issue", "decision"}
        /\ day - store.entries[r].date <= 30
        /\ day - store.entries[r].date > 3
        /\ r \in DOMAIN store.vec }

MutuallySimilar(store, rows) ==
    \A r, s \in rows : cosineSimilarity(store.vec[r], store.vec[s]) >= 7500

\* r is a member no other member beats: none has a higher access count, and
\* none with the same access count has a later (date, time).
MaySurvive(store, rows, r) ==
    \A s \in rows :
        /\ store.entries[s].accessCount <= store.entries[r].accessCount
        /\ store.entries[s].accessCount = store.entries[r].accessCount =>
              store.entries[s].date * 1440 + store.entries[s].time
                 <= store.entries[r].date * 1440 + store.entries[r].time

\* C16: when run_maintenance consolidates one cluster of three or more
\* mutually similar issues and decisions older than 3 days, the member with
\* the highest access count (the most recent one among equals) gets the
\* suffix "[Consolidated from N entries]" and is in tier working if it was
\* ephemeral, every other member is archived, and the consolidated counter
\* is 1.
ConsolidationKeepsOneAndArchivesTheRest ==
    [][ret'.op = "runMaintenance" =>
          LET mid == BeforeConsolidation(db, today)
              members == ClusterMembers(mid, today)
          IN (Cardinality(members) >= 3 /\ MutuallySimilar(mid, members)) =>
                /\ ret'.report.consolidated = 1
                /\ \E r \in members :
                      /\ MaySurvive(mid, members, r)
                      /\ db'.entries[r].content =
                            mid.entries[r].content \o ConsolidatedNote(Cardinality(members))
                      /\ ~db'.entries[r].archived
                      /\ mid.entries[r].tier = "ephemeral" => db'.entries[r].tier = "working"
                      /\ \A s \in members \ {r} : db'.entries[s].archived]_vars

(***************************************************************************)
(* C17, C18, C19: the pattern table.                                       *)
(***************************************************************************)
\* C17: each entry id is in the entry_ids of at most one unresolved pattern.
EachEntryInAtMostOneUnresolvedPattern ==
    \A i, j \in DOMAIN db.patterns :
        (i # j /\ ~db.patterns[i].resolved /\ ~db.patterns[j].resolved) =>
            Range(db.patterns[i].entryIds) \cap Range(db.patterns[j].entryIds) = {}

ActiveMeansUnresolvedWithThree ==
    /\ [](ret.op = "getActivePatterns" =>
            Range(ret.ids) = { db.patterns[i].id : i \in
                                 { k \in DOMAIN db.patterns :
                                     /\ ~db.patterns[k].resolved
                                     /\ db.patterns[k].occurrenceCount >= 3 } })
    /\ [][\A i \in DOMAIN db.patterns :
             db.patterns[i].resolved =>
                /\ i \in DOMAIN db'.patterns
                /\ db'.patterns[i].id = db.patterns[i].id
                /\ db'.patterns[i].resolved]_vars

\* getActivePatterns has just returned a pattern created after another one,
\* of three occurrences, was resolved; the resolved one is not returned.
ResolvedPatternNotReturned ==
    /\ ret.op = "getActivePatterns"
    /\ \E i, j \in DOMAIN db.patterns :
          /\ i < j
          /\ db.patterns[i].resolved /\ db.patterns[i].occurrenceCount >= 3
          /\ db.patterns[i].id \notin Range(ret.ids)
          /\ db.patterns[j].id \in Range(ret.ids)
          /\ Range(db.patterns[i].entryIds) \cap Range(db.patterns[j].entryIds) # {}

(***************************************************************************)
(* C20: the filters of hybrid_search.                                      *)
(***************************************************************************)
\* C20: a hybridSearch call returns at most limit entries, and each of them
\* has the type asked for and the tier asked for, whichever of the two
\* candidate lists it came from.
HybridResultsPassEveryFilter ==
    [][\A opts \in FilteredHybridOpts :
          LET out == hybridSearch(db, today, "c1", embed("c1"), opts)
          IN (/\ ~out.throws
              /\ db' = out.db
              /\ ret' = Ret("hybridSearch", 0, out.result, out.throws)) =>
                /\ Len(ret'.ids) <= opts.limit
                /\ \A i \in DOMAIN ret'.ids :
                      \A r \in RowsWithId(db', ret'.ids[i]) :
                          /\ db'.entries[r].type = opts.type
                          /\ opts.tier # NULL => db'.entries[r].tier = opts.tier]_vars

(***************************************************************************)
(* C21: what hybrid_search writes.                                         *)
(***************************************************************************)
\* C21: a hybridSearch call that returns adds 1 to access_count and sets
\* last_accessed to today for exactly the entries it returns, and changes
\* nothing else in any entry.
HybridSearchBumpsExactlyItsResults ==
    [][(ret'.op = "hybridSearch" /\ ~ret'.throws) =>
          /\ DOMAIN db'.entries = DOMAIN db.entries
          /\ \A r \in DOMAIN db.entries :
                db'.entries[r] =
                    IF db.entries[r].id \in Range(ret'.ids)
                    THEN [ db.entries[r] EXCEPT !.accessCount = @ + 1,
                                                !.lastAccessed = today ]
                    ELSE db.entries[r]]_vars

\* A hybrid search with limit 1 has returned one of two entries: that one
\* was accessed today, the other one never.
HybridSearchBumpedOneOfTwo ==
    /\ ret.op = "hybridSearch" /\ ~ret.throws /\ Len(ret.ids) = 1
    /\ \E r, s \in DOMAIN db.entries :
          /\ db.entries[r].id = ret.ids[1]
          /\ db.entries[r].accessCount = 1 /\ db.entries[r].lastAccessed = today
          /\ s # r /\ s \in DOMAIN db.vec /\ ~db.entries[s].archived
          /\ db.entries[s].accessCount = 0 /\ db.entries[s].lastAccessed = NoDay

(***************************************************************************)
(* C22: hybrid_search with an empty query.                                 *)
(***************************************************************************)
\* C22: a hybridSearch call with the empty string as its query raises no
\* error and returns no entry.
EmptyQueryReturnsNothingWithoutError ==
    [][\A opts \in HybridOpts :
          LET out == hybridSearch(db, today, "", embed(""), opts)
          IN (db' = out.db /\ ret' = Ret("hybridSearch", 0, out.result, out.throws)) =>
                (~ret'.throws /\ ret'.ids = << >>)]_vars

(***************************************************************************)
(* C23: hybrid_search and entries dated in the future.                     *)
(***************************************************************************)
\* C23: for an entry dated after today that a hybrid search scores, the age
\* is taken as 0: the decay factor is exactly 1 (1000 thousandths) and the
\* score is the one the entry would have if it were dated today.
FutureEntriesScoreAsOfToday ==
    \A opts \in HybridOpts :
        LET cand == hybridCandidates(db, today, "c1", embed("c1"), opts)
        IN ~hybridSearchThrows(db, today, "c1", embed("c1"), opts) =>
              \A r \in Range(cand.all) :
                  db.entries[r].date > today =>
                     /\ decay(today - db.entries[r].date) = 1000
                     /\ hybridScore(db, today, cand, r) =
                          hybridScore([ db EXCEPT !.entries[r].date = today ], today, cand, r)


(***************************************************************************)
(* The Stop hook and what happens to its files between two runs.           *)
(***************************************************************************)
OtherFile(f) == CHOOSE o \in TFiles : o # f

\* Claude Code appends a line to a transcript, creating the file at the
\* first one; the file is then the most recently modified one.
AppendLine(f, line) ==
    /\ hook.exists[f] # "gone"
    /\ Len(hook.files[f]) < MaxLines
    /\ hook' = [ hook EXCEPT !.files[f] = Append(@, line), !.exists[f] = "yes",
                             !.newest = f ]
    /\ UNCHANGED << dayFile, db, today, ret, pending, cache, lastRule, net, sched, tx, watcher >>

\* A transcript is removed; its name is never used again.
DeleteTranscript(f) ==
    /\ hook.exists[f] = "yes"
    /\ hook' = [ hook EXCEPT !.files[f] = << >>, !.exists[f] = "gone",
                             !.handed[f] = [ at \in 1 .. MaxLines |-> 0 ],
                             !.newest = IF @ # f THEN @
                                        ELSE IF hook.exists[OtherFile(f)] = "yes"
                                        THEN OtherFile(f) ELSE NULL ]
    /\ UNCHANGED << dayFile, db, today, ret, pending, cache, lastRule, net, sched, tx, watcher >>

MinutesPass(d) ==
    /\ hook.now + d <= MaxClock
    /\ hook' = [ hook EXCEPT !.now = @ + d ]
    /\ UNCHANGED << dayFile, db, today, ret, pending, cache, lastRule, net, sched, tx, watcher >>

\* One run of the Stop hook, main(): scanTranscript() inside its
\* try/catch, then the handoff.
StopHook(readFails, failed, embedFails) ==
    /\ Len(hook.handoffs) < MaxHandoffs
    /\ \A f \in TFiles, at \in 1 .. MaxLines : hook.handed[f][at] < MaxHanded
    /\ readFails => hook.newest # NULL
    /\ LET scanned == scanTranscript(hook, db, today, readFails, failed)
           tried == IF failed = 0 THEN scanned.scan.messages
                    ELSE Take(scanned.scan.messages, failed)
           after == handoff([ hook EXCEPT
                                !.cursor = scanned.cursor,
                                !.scan = scanned.scan,
                                !.handed = [ f \in TFiles |-> [ at \in 1 .. MaxLines |->
                                    IF f = hook.newest
                                       /\ \E i \in DOMAIN tried : tried[i].at = at
                                    THEN @[f][at] + 1 ELSE @[f][at] ] ] ],
                            scanned.db, today, embedFails)
       IN /\ failed <= Len(scanned.scan.messages)
          /\ embedFails => Len(after.hook.handoffs) > Len(hook.handoffs)
          /\ hook' = after.hook
          /\ db' = after.db
    /\ ret' = NoRet
    /\ UNCHANGED << dayFile, today, pending, cache, lastRule, net, sched, tx, watcher >>

NextStop ==
    \/ \E line \in {"c1", "c2", "short"} :
          Len(hook.files["ta"]) < MaxStopLines /\ AppendLine("ta", line)
    \/ hook.files["tb"] = << >> /\ AppendLine("tb", "c2")
    \/ \E f \in TFiles : DeleteTranscript(f)
    \/ \E d \in {DEBOUNCE_MS - 2, DEBOUNCE_MS} : MinutesPass(d)
    \/ \E readFails \in BOOLEAN, failed \in 0 .. ScanCap, embedFails \in BOOLEAN :
          StopHook(readFails, failed, embedFails)

SpecStop == Init /\ [][NextStop]_vars


\* C24: over the scans of one transcript file the persisted cursor offset
\* never decreases, whether a scan finds new messages, finds none, or
\* cannot read the file.
CursorOffsetNeverDecreases ==
    [][(hook.cursor.file # NULL /\ hook'.cursor.file = hook.cursor.file) =>
          hook'.cursor.offset >= hook.cursor.offset]_vars

\* A scan whose read failed has persisted a cursor past the start of the file.
FailedReadKeptOffset ==
    /\ hook.scan.readFailed
    /\ hook.cursor = hook.scan.written
    /\ hook.cursor.offset > 0


\* C25: a scan that finds the stored cursor naming a transcript that no
\* longer exists returns no messages and persists a cursor naming the
\* current transcript with offset 0.
StaleCursorScanReturnsNothing ==
    [][(/\ hook.cursor.file # NULL
        /\ hook.exists[hook.cursor.file] = "gone"
        /\ hook.newest # NULL
        /\ StopHook(FALSE, 0, FALSE)) =>
          /\ hook'.scan.messages = << >>
          /\ hook'.cursor = [ file |-> hook.newest, offset |-> 0 ]]_vars

\* C26: when the embedder fails on one message of a scan, every other
\* message of the scan is processed (the store holds its text) and the new
\* cursor is persisted.
EmbedderFailureSkipsOneMessage ==
    [][\A failed \in 1 .. ScanCap, embedFails \in BOOLEAN :
          StopHook(FALSE, failed, embedFails) =>
              /\ hook'.cursor = hook'.scan.written
              /\ \A i \in DOMAIN hook'.scan.messages \ {failed} :
                    \E r \in DOMAIN db'.entries :
                        db'.entries[r].content = hook'.scan.messages[i].text]_vars

\* C27: two handoff entries are never written less than 5 minutes apart.
HandoffsFiveMinutesApart ==
    \A i, j \in DOMAIN hook.handoffs :
        i < j => hook.handoffs[j] - hook.handoffs[i] >= DEBOUNCE_MS


(***************************************************************************)
(* The timers of the server process: the GitWatcher's debounce timer and   *)
(* the SyncScheduler's interval.                                           *)
(***************************************************************************)
\* GitWatcher.start() of a watcher that is not watching, in a git
\* repository whose HEAD is readable.
WatcherStart ==
    /\ watcher.watchers = 0
    /\ watcher' = [ watcher EXCEPT !.lastHead = watcher.head, !.watchers = 1,
                                   !.lastStop = "none" ]
    /\ UNCHANGED << dayFile, db, today, ret, pending, cache, lastRule, net, sched, tx, hook >>

WatcherStop ==
    /\ watcher' = stop(watcher)
    /\ UNCHANGED << dayFile, db, today, ret, pending, cache, lastRule, net, sched, tx, hook >>

\* git checkout of branch b rewrites .git/HEAD; the fs.watch callback of a
\* watching GitWatcher calls scheduleEvent().
Checkout(b) ==
    /\ b # watcher.head
    /\ watcher.unanswered < MaxBurst
    /\ watcher' = IF watcher.watchers > 0
                  THEN scheduleEvent([ watcher EXCEPT !.head = b ])
                  ELSE [ watcher EXCEPT !.head = b ]
    /\ UNCHANGED << dayFile, db, today, ret, pending, cache, lastRule, net, sched, tx, hook >>

\* Any other change below .git that a watching GitWatcher is told of.
FsEvent ==
    /\ watcher.watchers > 0
    /\ watcher.unanswered < MaxBurst
    /\ watcher' = scheduleEvent(watcher)
    /\ UNCHANGED << dayFile, db, today, ret, pending, cache, lastRule, net, sched, tx, hook >>

\* A second passes; a timer that is due fires before the next one does.
SecondPasses ==
    /\ watcher.now < MaxWatchClock
    /\ watcher.debounceTimer = NoTimer \/ watcher.now < watcher.debounceTimer
    /\ watcher' = [ watcher EXCEPT !.now = @ + 1 ]
    /\ UNCHANGED << dayFile, db, today, ret, pending, cache, lastRule, net, sched, tx, hook >>

\* The debounce timer fires: debounceTimer = null, then handleEvent(), in
\* a repository without commits left to index.  After a branch switch it
\* stores an ephemeral progress entry and its vector.
HandleEvent ==
    /\ watcher.debounceTimer # NoTimer
    /\ watcher.now >= watcher.debounceTimer
    /\ Len(watcher.runs) < MaxRuns
    /\ watcher' = [ watcher EXCEPT !.debounceTimer = NoTimer,
                                   !.lastHead = watcher.head,
                                   !.unanswered = 0,
                                   !.runs = Append(@, [ at |-> watcher.now,
                                                        first |-> watcher.firstEvent,
                                                        events |-> watcher.unanswered ]) ]
    /\ IF watcher.head # watcher.lastHead
       THEN LET ins == insert(db, [ id |-> generateId, date |-> today, time |-> 0,
                                    type |-> "progress", tags |-> << "branch-switch" >>,
                                    content |-> watcher.head, sourceFile |-> "md",
                                    tier |-> "ephemeral", accessCount |-> 0,
                                    lastAccessed |-> NoDay, pinned |-> FALSE,
                                    archived |-> FALSE, label |-> NULL ])
            IN db' = insertVec(ins.db, ins.rowid, embed(watcher.head))
       ELSE db' = db
    /\ UNCHANGED << dayFile, today, ret, pending, cache, lastRule, net, sched, tx, hook >>

\* SyncScheduler.start() with sync enabled.
SchedulerStart(h) ==
    /\ ~sched[h].timer
    /\ sched' = [ sched EXCEPT ![h].timer = TRUE ]
    /\ UNCHANGED << dayFile, db, today, ret, pending, cache, lastRule, net, tx, hook, watcher >>

\* SyncScheduler.stop(): clearInterval().
SchedulerStop(h) ==
    /\ sched' = [ sched EXCEPT ![h].timer = FALSE ]
    /\ UNCHANGED << dayFile, db, today, ret, pending, cache, lastRule, net, tx, hook, watcher >>

NextTimers ==
    \/ WatcherStart
    \/ WatcherStop
    \/ \E b \in Branches : Checkout(b)
    \/ FsEvent
    \/ SecondPasses
    \/ HandleEvent
    \/ SchedulerStart("hx")
    \/ SchedulerStop("hx")
    \/ Tick("hx")
    \/ \E i \in 1 .. MaxCycles, ok \in BOOLEAN : Push("hx", i, ok)
    \/ \E i \in 1 .. MaxCycles, outcome \in PullOutcomes : Pull("hx", i, outcome)

SpecTimers == Init /\ [][NextTimers]_vars


\* C29: after stop() of the GitWatcher no handleEvent() run starts, and
\* after stop() of the SyncScheduler no sync cycle starts, until the next
\* start(); a debounce timer pending at stop() never fires.
StoppedTimersStartNothing ==
    [][/\ (watcher.lastStop # "none" /\ watcher'.lastStop # "none") =>
              watcher'.runs = watcher.runs
       /\ \A h \in Hosts :
              (~sched[h].timer /\ ~sched'[h].timer) =>
                  /\ sched'[h].started = sched[h].started
                  /\ Len(net'.cyc[h]) <= Len(net.cyc[h])]_vars

\* stop() cancelled a pending debounce timer whose time has since come, and
\* the scheduler was stopped in the middle of a cycle.
StoppedWithTimerPendingAndCycleRunning ==
    /\ watcher.lastStop = "pending"
    /\ watcher.now >= watcher.lastEvent + DebounceDelay
    /\ ~sched["hx"].timer
    /\ sched["hx"].running

\* C30: the debounce timer is single-shot and rearmed by every event: the
\* events of a burst are answered by exactly one handleEvent() run, which
\* starts 2 seconds after the last of them.
DebounceRunsOnceAfterLastEvent ==
    /\ [](watcher.unanswered > 0 =>
              /\ watcher.debounceTimer = watcher.lastEvent + DebounceDelay
              /\ watcher.now <= watcher.debounceTimer)
    /\ [][watcher'.runs # watcher.runs =>
              /\ Len(watcher'.runs) = Len(watcher.runs) + 1
              /\ watcher.unanswered >= 1
              /\ watcher'.unanswered = 0
              /\ watcher'.debounceTimer = NoTimer
              /\ watcher.now = watcher.lastEvent + DebounceDelay]_vars

\* A run has answered two events that came at different times.
OneRunAnsweredTwoEvents ==
    \E i \in DOMAIN watcher.runs :
        /\ watcher.runs[i].events = 2
        /\ watcher.runs[i].at > watcher.runs[i].first + DebounceDelay


(***************************************************************************)
(* The text of the SessionStart hook.  A line is modelled by the number of *)
(* its characters.                                                         *)
(***************************************************************************)
TOKEN_BUDGET_CHARS == 4000

\* lines.join("\n").length
RECURSIVE joinLength(_)
joinLength(lines) ==
    IF lines = << >> THEN 0
    ELSE IF Len(lines) = 1 THEN lines[1]
    ELSE lines[1] + 1 + joinLength(Tail(lines))

\* Section 1 for rules whose contents have ruleChars[i] characters: the
\* heading, "- " and the content of every rule, an empty line.
rulesSection(ruleChars) ==
    IF ruleChars = << >> THEN << >>
    ELSE << 38 >> \o [ i \in DOMAIN ruleChars |-> 2 + ruleChars[i] ] \o << 0 >>

\* The assembly loop: a section is added whole if charCount plus the length
\* of its joined lines is within the budget.
RECURSIVE assemble(_, _, _)
assemble(lines, charCount, sections) ==
    IF sections = << >> THEN lines
    ELSE IF charCount + joinLength(Head(sections)) <= TOKEN_BUDGET_CHARS
    THEN assemble(lines \o Head(sections), charCount + joinLength(Head(sections)),
                  Tail(sections))
    ELSE assemble(lines, charCount, Tail(sections))

\* main() from the rules section to the write, for a store with rules of
\* ruleChars characters, at most one recent entry (contextChars characters,
\* 0: none), at most one handoff (handoffChars), no pending rules, patterns
\* or git activity, and a maintenance run that archived one entry or none.
SessionStart(ruleChars, contextChars, handoffChars, maintained, totalEntries) ==
    LET rules == rulesSection(ruleChars)
        budgetForContext == IF contextChars = 0 THEN << >>
                            ELSE << 31, 10, 18 + contextChars, 0 >>
        budgetForHandoff == IF handoffChars = 0 THEN << >>
                            ELSE << 17, 15 + handoffChars, 0 >>
        budgetForMaint == IF maintained THEN << 26 >> ELSE << >>
        sections == << << >>, budgetForContext, budgetForHandoff, << >>, << >>,
                       << >>, << >>, budgetForMaint >>
        lines == assemble(rules, joinLength(rules), sections)
                     \o << 35 + (IF totalEntries < 10 THEN 1 ELSE 2) >>
    IN /\ ret' = [ op |-> "sessionStart",
                   n |-> IF Len(lines) <= 1 THEN 0 ELSE joinLength(lines),
                   ids |-> << >>, throws |-> FALSE,
                   report |-> [ rules |-> joinLength(rules), lines |-> lines ] ]
       /\ UNCHANGED << dayFile, db, today, pending, cache, lastRule, net, sched, tx, hook, watcher >>

RuleSizes == {248, 1800, 3700}

NextSession ==
    \E ruleChars \in {<< >>} \cup { << a >> : a \in RuleSizes }
                             \cup { << a, b >> : a \in RuleSizes, b \in RuleSizes },
       contextChars \in {0, 60, 200}, handoffChars \in {0, 100},
       maintained \in BOOLEAN, totalEntries \in {2, 12} :
        SessionStart(ruleChars, contextChars, handoffChars, maintained, totalEntries)

SpecSession == Init /\ [][NextSession]_vars

\* C28: whenever the rules section alone fits in 4000 characters, the whole
\* text the SessionStart hook writes (rules, included sections, the
\* separators between them, the entry-count line) has at most 4000
\* characters.
SessionStartTextWithinBudget ==
    (ret.op = "sessionStart" /\ ret.report.rules <= TOKEN_BUDGET_CHARS) =>
        ret.n <= TOKEN_BUDGET_CHARS


\* context_save on host h between two cycles, at minute time of today: the
\* entry and its vector are stored; the id is new to every host.
LocalSave(h, time) ==
    /\ \A o \in Hosts : MaxRowid + 2 \notin AllIds(net.store[o])
    /\ LET ins == insert(net.store[h],
                         [ HostEntry(MaxRowid + 2, FALSE) EXCEPT !.date = today,
                                                                 !.time = time ])
       IN net' = [ net EXCEPT !.store[h] = insertVec(ins.db, ins.rowid, embed("c1")) ]
    /\ UNCHANGED << dayFile, db, today, ret, pending, cache, lastRule, sched, tx, hook, watcher >>

\* The cycles of host hx, which writes between them; hy stays idle.
NextSyncWrites ==
    \/ Tick("hx")
    \/ \E i \in 1 .. MaxCycles, ok \in BOOLEAN : Push("hx", i, ok)
    \/ \E i \in 1 .. MaxCycles, outcome \in PullOutcomes : Pull("hx", i, outcome)
    \/ \E time \in {1, 2} : LocalSave("hx", time)

SpecSyncWrites == InitSync /\ [][NextSyncWrites]_vars

IsPrefix(s, t) == Len(s) <= Len(t) /\ SubSeq(t, 1, Len(s)) = s

LogIds(h) == { net.remote[h][k].id : k \in DOMAIN net.remote[h] }

\* C33: a host's replication log is append-only and free of duplicates:
\* every step leaves the previous content of each log as a prefix of the
\* new content, and no entry id is on two lines of a log.
OwnLogAppendOnlyWithoutDuplicates ==
    /\ [][\A h \in Hosts : IsPrefix(net.remote[h], net'.remote[h])]_vars
    /\ [](\A h \in Hosts : \A k, l \in DOMAIN net.remote[h] :
              net.remote[h][k].id = net.remote[h][l].id => k = l)

\* A log has been extended by a second push of its host.
LogGrewInTwoPushes ==
    \E h \in Hosts :
        /\ Len(net.remote[h]) >= 2
        /\ net.remote[h][1].id \in AllIds(net.store[h])
        /\ net.result[h].pushed >= 1
        /\ net.result[h].pushed < Len(net.remote[h])

\* C34: a pull inserts only entries whose id the local store does not
\* hold, with source_file "sync"; every row the store held is left as it
\* was, and no inserted id is on a line of the host's own log.
PullInsertsOnlyUnknownEntries ==
    [][\A h \in Hosts :
          /\ \A r \in DOMAIN net.store[h].entries :
                /\ r \in DOMAIN net'.store[h].entries
                /\ net'.store[h].entries[r] = net.store[h].entries[r]
          /\ \A r \in DOMAIN net'.store[h].entries \ DOMAIN net.store[h].entries :
                /\ net'.store[h].entries[r].sourceFile = "sync"
                /\ net'.store[h].entries[r].id \notin AllIds(net.store[h])
                /\ net'.store[h].entries[r].id \notin LogIds(h)]_vars

\* A host has pulled, to the end, a log that holds the id of an entry the
\* host wrote itself.
PullSkippedAKnownEntry ==
    \E h \in Hosts, o \in Hosts :
        /\ o # h
        /\ net.result[h].pull = "ok"
        /\ cursorOf(net.state[h], o) = Len(net.remote[o])
        /\ \E r \in DOMAIN net.store[h].entries :
              /\ net.store[h].entries[r].sourceFile # "sync"
              /\ net.store[h].entries[r].id \in LogIds(o)

\* C38: after a push that completes without an error, every entry of the
\* host's store that is not archived (and was not pulled) is on a line of
\* the host's log, also when an earlier upload of it failed.
SuccessfulPushLeavesLogComplete ==
    [][\A h \in Hosts, i \in 1 .. MaxCycles : Push(h, i, TRUE) => LogComplete(h)']_vars

\* C39: a host's log holds only entries created on that host: no line of
\* the log carries the id of an entry the host obtained by pull.
LogHoldsOnlyOwnEntries ==
    \A h \in Hosts : \A r \in DOMAIN net.store[h].entries :
        net.store[h].entries[r].sourceFile = "sync" =>
            net.store[h].entries[r].id \notin LogIds(h)

\* C40: whenever a cycle ends, however it ends, the running flag is
\* cleared: with no cycle in flight a tick is never skipped.
RunningFlagClearedWhenCycleEnds ==
    /\ [][\A h \in Hosts : Len(net'.cyc[h]) < Len(net.cyc[h]) => ~sched'[h].running]_vars
    /\ [](\A h \in Hosts : net.cyc[h] = << >> => ~tickSkips(sched[h]))

\* A second cycle was started by a tick after a cycle that ended with an
\* error.
CycleStartedAfterFailedCycle ==
    \E h \in Hosts :
        /\ net.result[h].error # ""
        /\ sched[h].started = 2
        /\ sched[h].running
        /\ Len(net.cyc[h]) = 1


RowsWhere(cond(_)) == { r \in DOMAIN db.entries : cond(db.entries[r]) }

\* C32: run_maintenance applies decay, demote, promote-stable,
\* promote-frequent and consolidate in that order, each pass on the state
\* the previous one left: the counts are those of the passes run in that
\* order, and an entry that enters the run in tier working is not archived
\* by the decay pass.
MaintenancePassesRunInOrder ==
    [][RunMaintenance =>
          /\ \A r \in DOMAIN db.entries :
                (db.entries[r].tier = "working" /\ ~db.entries[r].archived
                   /\ db'.entries[r].archived) => ret'.report.consolidated > 0
          /\ ret'.report.decayed =
                Cardinality(RowsWhere(LAMBDA e : decayEphemeralCond(e, today)))
          /\ ret'.report.demoted =
                Cardinality(RowsWhere(LAMBDA e : demoteIdleCond(e, today)))
          /\ ret'.report.promotedStable =
                Cardinality(RowsWhere(LAMBDA e : /\ promoteStableCond(e, today)
                                                 /\ ~demoteIdleCond(e, today)))
          /\ ret'.report.promotedFrequent =
                Cardinality(RowsWhere(LAMBDA e :
                    \/ promoteFrequentCond(e) /\ ~decayEphemeralCond(e, today)
                    \/ demoteIdleCond(e, today) /\ e.accessCount >= 3))]_vars

\* A run has demoted a working entry that is old enough for decay, and the
\* entry is not archived.
DemotedEntrySurvivedTheRun ==
    /\ ret.op = "runMaintenance"
    /\ ret.report.demoted >= 1
    /\ ret.report.decayed = 0
    /\ \E r \in DOMAIN db.entries : decayEphemeralCond(db.entries[r], today)

\* C36: a second run_maintenance right after a first one, on the same day
\* and with nothing in between, reports five zeros and changes no entry.
SecondMaintenanceRunChangesNothing ==
    [][(ret.op = "runMaintenance" /\ RunMaintenance) =>
          /\ db' = db
          /\ ret'.report = [ decayed |-> 0, demoted |-> 0, promotedStable |-> 0,
                             promotedFrequent |-> 0, consolidated |-> 0 ]]_vars


\* The scans of one transcript that only grows, with a working embedder.
NextScan ==
    \/ \E line \in {"c1", "c2", "short"} : AppendLine("ta", line)
    \/ StopHook(FALSE, 0, FALSE)

SpecScan == Init /\ [][NextScan]_vars

\* C35: the persisted cursor offset lies on a line boundary, also when the
\* read stopped at the chunk cap before the end of the file.
CursorOnLineBoundary == hook.cursor.offset % LineBytes = 0

\* C37: every complete line with a qualifying message that lies before the
\* cursor has been handed to classification in exactly one scan, and no
\* line in more than one.
EachMessageClassifiedOnce ==
    \A f \in TFiles : \A at \in DOMAIN hook.files[f] :
        /\ hook.handed[f][at] <= 1
        /\ (/\ hook.cursor.file = f
            /\ LineBytes * at <= hook.cursor.offset
            /\ hook.files[f][at] # "short") => hook.handed[f][at] = 1


(***************************************************************************)
(* Entries written to the day file and read back.                          *)
(***************************************************************************)
\* appendEntry(content, type, tags): the file is created with its title
\* line if it is missing, and the block is added at its end.
AppendEntry(content, type, tags) ==
    /\ Len(dayFile.written) < MaxFileEntries
    /\ LET id == Len(dayFile.written) + 1
           fileContent == IF dayFile.exists THEN dayFile.text ELSE << Line("title") >>
       IN dayFile' = [ exists |-> TRUE,
                       text |-> fileContent \o entryBlock(0, type, tags, id, content),
                       written |-> Append(dayFile.written,
                                          [ id |-> id, type |-> type, tags |-> tags,
                                            content |-> content ]) ]
    /\ UNCHANGED << db, today, ret, pending, cache, lastRule, net, sched, tx, hook, watcher >>

\* Contents of one or two lines: plain text, with a line that reads like an
\* entry header, with a line that reads like an id comment.
FileContents ==
    { << TextLine("c1") >>,
      << TextLine("c1"), TextLine("c2") >>,
      << TextLine("c1"), HeaderLine(0, "issue", << >>) >>,
      << TextLine("c1"), IdLine(9) >> }

FileTags == { << >>, << << "t1" >> >>, << << "t1" >>, << "t2" >> >>, << << "a", "b" >> >> }

NextFile ==
    \E content \in FileContents, type \in {"issue", "note"}, tags \in FileTags :
        AppendEntry(content, type, tags)

SpecFile == Init /\ [][NextFile]_vars

\* C31: parsing the day file yields exactly the (id, type, tags, content)
\* tuples that append_entry wrote to it, whatever the content and the tags.
ParsingYieldsWhatWasWritten ==
    LET parsed == parseMarkdownText(dayFile.text)
    IN { [ id |-> parsed[n].id, type |-> parsed[n].type, tags |-> parsed[n].tags,
           content |-> parsed[n].content ] : n \in DOMAIN parsed }
         = Range(dayFile.written)

====
